---- MODULE Spec2Model ----
(***************************************************************************)
(* State-machine model of the CPE webinar directory view model:            *)
(*   - WebinarDirectory (index page, src/script.js:950-2025),              *)
(*   - the earlier WebinarDirectory generation that kept like counts in    *)
(*     the localStorage ledger 'webinar_likes' (src/script.js:1-945),      *)
(*   - AdminPanel (src/admin-panel.html:360-828),                          *)
(*   - the like-persistence endpoint (src/save_likes.php).                 *)
(* Strings that the code transforms (titles, providers, ids) are sequences *)
(* of characters; an optional field is a sequence of length 0 or 1.        *)
(***************************************************************************)
EXTENDS Integers, Sequences, FiniteSets, TLC

\* ---------------------------------------------------------------- bounds
\* Shortest store length at which the add form is no longer submitted.
MaxStore == 2
\* AdminPanel.loadData calls started by the user and in flight at once.
MaxLoads == 1
\* saveLikesToServer requests in flight at once.
MaxPosts == 2
\* Largest like counter a like or a legacy like may still raise.
MaxLikes == 2

\* ------------------------------------------------------- strings, dates
Lower == {"a", "b", "p", "x", "s"}
Space == {" "}
Dash == {"-"}

\* String.prototype.toLowerCase, character by character.
toLowerCase(s) ==
    [i \in DOMAIN s |-> IF s[i] = "A" THEN "a" ELSE IF s[i] = "P" THEN "p" ELSE s[i]]

\* s.replace(/\s+/g, '-'): every maximal run of white space becomes one dash.
RECURSIVE replaceWhitespaceRuns(_)
replaceWhitespaceRuns(s) ==
    IF s = << >> THEN << >>
    ELSE IF Head(s) \in Space
         THEN IF Len(s) > 1 /\ s[2] \in Space
              THEN replaceWhitespaceRuns(Tail(s))
              ELSE <<"-">> \o replaceWhitespaceRuns(Tail(s))
         ELSE <<Head(s)>> \o replaceWhitespaceRuns(Tail(s))

\* s.replace(/[^a-z0-9-]/g, ''): only lower-case letters, digits, dashes stay.
RECURSIVE stripNonSlug(_)
stripNonSlug(s) ==
    IF s = << >> THEN << >>
    ELSE IF Head(s) \in Lower \cup Dash
         THEN <<Head(s)>> \o stripNonSlug(Tail(s))
         ELSE stripNonSlug(Tail(s))

\* AdminPanel.generateId(title, provider).
generateId(title, provider) ==
    replaceWhitespaceRuns(toLowerCase(provider)) \o <<"-">>
        \o stripNonSlug(replaceWhitespaceRuns(toLowerCase(title)))

\* Clock values are days (two of them); a date string is tagged date-only (0)
\* or full timestamp (1), so that the two formats of one day are different
\* strings.
Clock == {0, 1}
\* new Date().toISOString().split('T')[0]
ISODate(t) == <<0, t>>
\* new Date().toISOString()
ISODateTime(t) == <<1, t>>

\* ------------------------------------------------------------- records
UrlOk == "https://x.org/w"
UrlRelative == "x.org/w"
UrlMissing == ""

\* new URL(u) succeeds only for an absolute URL.
ParsesAsURL(u) == u = UrlOk

Rec(i, t, p, u, l, c, d, s) ==
    [id |-> i, title |-> t, provider |-> p, url |-> u, likes |-> l,
     certificate_available |-> c, date_added |-> d, source |-> s]

NoLikes == << >>
NoSource == << >>

idX == <<"x">>
idPA == <<"p", "-", "a">>
idPB == <<"p", "-", "b">>
idBad == <<"b">>
idSample == <<"s">>

\* The one-record fallback collection of WebinarDirectory.loadData.
SampleWebinars ==
    << Rec(idSample, <<"s">>, <<"P">>, UrlOk, NoLikes, TRUE, ISODate(0), NoSource) >>

recX == Rec(idX, <<"x">>, <<"P">>, UrlOk, NoLikes, TRUE, ISODate(0), <<"scraped">>)
recXliked == Rec(idX, <<"x">>, <<"P">>, UrlOk, <<1>>, TRUE, ISODate(0), <<"scraped">>)
recPA == Rec(idPA, <<"a">>, <<"P">>, UrlOk, <<0>>, TRUE, ISODate(0), <<"manual">>)
recBadUrl == Rec(idBad, <<"b">>, <<"P">>, UrlRelative, NoLikes, TRUE, ISODate(0), <<"scraped">>)
recPB == Rec(idPB, <<"b">>, <<"P">>, UrlOk, NoLikes, TRUE, ISODate(0), NoSource)

\* Feed documents the external collaborators may publish (ids unique in each).
Doc(ws, lu) == [webinars |-> ws, last_updated |-> lu, total_count |-> Len(ws)]
Feeds ==
    { Doc(<<recX, recBadUrl>>, ISODate(0)),
      Doc(<<recPA, recXliked>>, ISODate(1)) }

\* Batches an earlier admin session may leave under 'pendingWebinars'.
PendingBatches == { <<recPB>> }

\* ---------------------------------------------------------------- state
VARIABLES
    page,                 \* which page object is alive: "index", "legacy", "admin"
    ready,                \* init() has finished: the event listeners are installed
    webinars,             \* this.webinars
    filteredWebinars,     \* this.filteredWebinars, as references (store positions)
    dataModified,         \* this.dataModified
    editingWebinar,       \* this.editingWebinar: << >> or <<record>>
    loads,                \* loadData calls awaiting a response
    filters,              \* this.filters
    currentSort,          \* this.currentSort
    pendingWebinars,      \* localStorage 'pendingWebinars'
    webinar_likes,        \* localStorage 'webinar_likes' (legacy ledger id -> count)
    user_webinar_likes,   \* localStorage 'user_webinar_likes' (ids mapped to true)
    webinar_last_updated, \* localStorage 'webinar_last_updated': << >> or a token
    feed,                 \* the server's webinars.json
    posts,                \* save_likes.php requests in flight
    backups,              \* the server's webinars_backup_<second>.json files
    last,                 \* the most recent step: handler, argument, outcome, notice,
                          \* document produced, clock value read
    hist                  \* history: last loaded feed, integration/migration counts, toggle run

view == <<filters, currentSort>>
mem == <<page, ready, webinars, filteredWebinars, dataModified, editingWebinar, loads, view>>
storage == <<pendingWebinars, webinar_likes, user_webinar_likes, webinar_last_updated>>
net == <<feed, posts, backups>>
vars == <<mem, storage, net, last, hist>>

Log(op, arg, res, notice, doc, t) ==
    [op |-> op, arg |-> arg, res |-> res, notice |-> notice, doc |-> doc, t |-> t]
NoDoc == << >>
NoArg == << >>
NoNotice == ""
NoRun == << >>

\* [...this.webinars]: a fresh list referring to every store record in order.
\* The filter settings and the sort state the constructor sets.
NoFilters ==
    [search |-> << >>, provider |-> << >>, topic |-> << >>, format |-> << >>,
     duration |-> "", certificate |-> "", date |-> "", liked |-> ""]
Sort(field, direction) == [field |-> field, direction |-> direction]
InitialSort == Sort("date_added", "desc")

AllOf(ws) == [i \in 1..Len(ws) |-> i]
\* The records this.filteredWebinars refers to.
FilteredRecords == [i \in DOMAIN filteredWebinars |-> webinars[filteredWebinars[i]]]

EmptyLedger == [i \in {} |-> 0]

\* -------------------------------------------------------------- helpers
\* this.webinars.find(w => w.id === id) / findIndex: first position, 0 if none.
IndexOf(ws, id) ==
    IF \E i \in 1..Len(ws) : ws[i].id = id
    THEN CHOOSE i \in 1..Len(ws) : ws[i].id = id /\ \A j \in 1..(i - 1) : ws[j].id # id
    ELSE 0

\* webinar.likes || 0
LikesOr0(w) == IF w.likes = NoLikes THEN 0 ELSE w.likes[1]

\* Variant of Max0 without the clamp.
Max0_unclamped(n) == n

\* Math.max(0, n)
Max0(n) == IF n < 0 THEN 0 ELSE n

\* ledger[id] || 0 on a JSON object read from localStorage
LedgerGet(l, id) == IF id \in DOMAIN l THEN l[id] ELSE 0
LedgerSet(l, id, v) == [j \in (DOMAIN l) \cup {id} |-> IF j = id THEN v ELSE l[j]]

\* list.filter(w => w.id !== id)
RemoveId(ws, id) == SelectSeq(ws, LAMBDA w : w.id # id)

\* this.filteredWebinars.filter(w => w.id !== id), on references: the surviving
\* references, each renumbered to its record's position in the filtered store.
RemoveIdRefs(refs, ws, id) ==
    LET kept == SelectSeq(refs, LAMBDA p : ws[p].id # id)
        shift(p) == Cardinality({q \in 1..(p - 1) : ws[q].id = id})
    IN  [i \in DOMAIN kept |-> kept[i] - shift(kept[i])]

\* Variant of validateWebinarData without the URL parse.
validateWebinarData_withoutParse(w) ==
    /\ w.id # << >>
    /\ w.title # << >>
    /\ w.provider # << >>
    /\ w.url # UrlMissing

\* WebinarDirectory.validateWebinarData
validateWebinarData(w) ==
    /\ w.id # << >>
    /\ w.title # << >>
    /\ w.provider # << >>
    /\ w.url # UrlMissing
    /\ ParsesAsURL(w.url)

\* Variant of integratePendingWebinars that leaves the staging key in place.
integratePendingWebinars_keepStaged(ws, dm, pend) ==
    IF Len(pend) > 0
    THEN [webinars |-> ws \o pend, dataModified |-> TRUE, pendingWebinars |-> pend]
    ELSE [webinars |-> ws, dataModified |-> dm, pendingWebinars |-> pend]

\* integratePendingWebinars (identical in WebinarDirectory and AdminPanel), as a
\* function of the store, the flag and the staged list.
integratePendingWebinars(ws, dm, pend) ==
    IF Len(pend) > 0
    THEN [webinars |-> ws \o pend, dataModified |-> TRUE, pendingWebinars |-> << >>]
    ELSE [webinars |-> ws, dataModified |-> dm, pendingWebinars |-> pend]

\* Variant of migrateLikesFromLocalStorage that never removes the ledger.
migrateLikesFromLocalStorage_keepLedger(ws, dm, oldLikes) ==
    LET hit(i) == /\ ws[i].id \in DOMAIN oldLikes
                  /\ \A j \in 1..(i - 1) : ws[j].id # ws[i].id
                  /\ oldLikes[ws[i].id] > 0
    IN  [webinars |->
            [i \in 1..Len(ws) |->
                IF hit(i)
                THEN [ws[i] EXCEPT !.likes =
                        <<(IF @ = << >> THEN 0 ELSE @[1]) + oldLikes[ws[i].id]>>]
                ELSE ws[i]],
         dataModified |-> (dm \/ \E i \in 1..Len(ws) : hit(i)),
         webinar_likes |-> oldLikes]

\* WebinarDirectory.migrateLikesFromLocalStorage, as a function of the store, the
\* flag and the legacy ledger.
migrateLikesFromLocalStorage(ws, dm, oldLikes) ==
    LET hit(i) == /\ ws[i].id \in DOMAIN oldLikes
                  /\ IndexOf(ws, ws[i].id) = i
                  /\ oldLikes[ws[i].id] > 0
        migrated == \E i \in 1..Len(ws) : hit(i)
    IN  [webinars |->
            [i \in 1..Len(ws) |->
                IF hit(i)
                THEN [ws[i] EXCEPT !.likes = <<LikesOr0(ws[i]) + oldLikes[ws[i].id]>>]
                ELSE ws[i]],
         dataModified |-> (dm \/ migrated),
         webinar_likes |-> IF migrated THEN EmptyLedger ELSE oldLikes]

\* The record toggleLike leaves behind (current generation).
toggledRecord(w, userLikes, id) ==
    IF id \in userLikes
    THEN [w EXCEPT !.likes = <<Max0(LikesOr0(w) - 1)>>]
    ELSE [w EXCEPT !.likes = <<LikesOr0(w) + 1>>]

\* The ledger count toggleLike leaves behind (earlier generation).
toggledLedgerCount(n, userLikes, id) == IF id \in userLikes THEN Max0(n - 1) ELSE n + 1

\* The snapshot document of exportData / exportChanges / exportUpdatedData.
exportSnapshot(ws, t) ==
    [webinars |-> ws, last_updated |-> ISODate(t), total_count |-> Len(ws)]

\* Variant of the request body that carries no records.
backupData_withoutRecords(ws, t) ==
    [webinars |-> << >>, last_updated |-> ISODateTime(t), total_count |-> 0]

\* The request body of saveLikesToServer.
backupData(ws, t) ==
    [webinars |-> ws, last_updated |-> ISODateTime(t), total_count |-> Len(ws)]

\* The record submitAddForm builds from the form values.
webinarData(title, provider, url, certificate, t) ==
    [id |-> generateId(title, provider), title |-> title, provider |-> provider,
     url |-> url, likes |-> NoLikes, certificate_available |-> (certificate = "true"),
     date_added |-> ISODate(t), source |-> NoSource]

\* Variant of the record saveWebinarChanges builds, made from the form values
\* alone, without the spread of the record being edited.
updatedWebinar_withoutSpread(w, title, certificate) ==
    [w EXCEPT !.title = title, !.certificate_available = (certificate = "true"),
              !.likes = NoLikes, !.source = NoSource]

\* The record saveWebinarChanges builds: the edited record with the form values.
updatedWebinar(w, title, certificate) ==
    [w EXCEPT !.title = title, !.certificate_available = (certificate = "true")]

\* ----------------------------------------------------- loadData results
\* What one loadData call leaves behind once its last response has arrived
\* (ok) or a fetch / JSON parse has thrown (~ok): completed says that the call
\* returned normally, so that its caller (init, refreshData, clearChanges) goes on.
LoadResult(ws, dm, pend, ledger) ==
    [completed |-> TRUE, webinars |-> ws, filteredWebinars |-> AllOf(ws),
     dataModified |-> dm, pendingWebinars |-> pend, webinar_likes |-> ledger]

\* Variant of loadData without the catch block: a failure leaves the store as
\* it was and the call does not return normally.
loadData_propagating(ok, resp, ws, dm, pend, ledger) ==
    IF ok
    THEN LET valid == SelectSeq(resp, validateWebinarData)
             ip == integratePendingWebinars(valid, dm, pend)
             mg == migrateLikesFromLocalStorage(ip.webinars, ip.dataModified, ledger)
         IN  LoadResult(mg.webinars, mg.dataModified, ip.pendingWebinars, mg.webinar_likes)
    ELSE [LoadResult(ws, dm, pend, ledger) EXCEPT !.completed = FALSE]

\* WebinarDirectory.loadData, current generation: validate, integrate, migrate.
loadData(ok, resp, ws, dm, pend, ledger) ==
    IF ok
    THEN LET valid == SelectSeq(resp, validateWebinarData)
             ip == integratePendingWebinars(valid, dm, pend)
             mg == migrateLikesFromLocalStorage(ip.webinars, ip.dataModified, ledger)
         IN  LoadResult(mg.webinars, mg.dataModified, ip.pendingWebinars, mg.webinar_likes)
    ELSE LoadResult(SampleWebinars, dm, pend, ledger)

\* WebinarDirectory.loadData, earlier generation: no validation, no migration.
Legacy_loadData(ok, resp, ws, dm, pend, ledger) ==
    IF ok
    THEN LET ip == integratePendingWebinars(resp, dm, pend)
         IN  LoadResult(ip.webinars, ip.dataModified, ip.pendingWebinars, ledger)
    ELSE LoadResult(SampleWebinars, dm, pend, ledger)

\* AdminPanel.loadData: no validation, no migration, empty fallback.
Admin_loadData(ok, resp, ws, dm, pend, ledger) ==
    IF ok
    THEN LET ip == integratePendingWebinars(resp, dm, pend)
         IN  LoadResult(ip.webinars, ip.dataModified, ip.pendingWebinars, ledger)
    ELSE LoadResult(<< >>, dm, pend, ledger)

LoadOf(pg, ok, resp, ws, dm, pend, ledger) ==
    IF pg = "index" THEN loadData(ok, resp, ws, dm, pend, ledger)
    ELSE IF pg = "legacy" THEN Legacy_loadData(ok, resp, ws, dm, pend, ledger)
    ELSE Admin_loadData(ok, resp, ws, dm, pend, ledger)

\* A loadData call in flight: who started it, which fetch it awaits, and the
\* local lastUpdated it read from the first response.
Load(tag, stage, lu) == [tag |-> tag, stage |-> stage, lastUpdated |-> lu]
RemoveAt(q, i) == [j \in 1..(Len(q) - 1) |-> IF j < i THEN q[j] ELSE q[j + 1]]

\* ------------------------------------------------------------------ Init
\* What earlier sessions may have left in this device's localStorage: nothing;
\* a like given on the earlier generation of the page (ledger count 1 and
\* membership); a batch staged for the next load.
Left(pend, ledger, userLikes) ==
    [pendingWebinars |-> pend, webinar_likes |-> ledger, user_webinar_likes |-> userLikes]
FreshDevice == Left(<< >>, EmptyLedger, {})
Devices ==
    { FreshDevice,
      Left(<< >>, [j \in {idX} |-> 1], {idX}),
      Left(<<recPB>>, EmptyLedger, {}) }

\* A page has just been constructed.
Init ==
    /\ page \in {"index", "legacy", "admin"}
    /\ ready = FALSE
    /\ webinars = << >>
    /\ filteredWebinars = << >>
    /\ dataModified = FALSE
    /\ editingWebinar = << >>
    /\ loads = << Load("init", 1, << >>) >>
    /\ filters = NoFilters
    /\ currentSort = InitialSort
    /\ \E d \in Devices :
          /\ pendingWebinars = d.pendingWebinars
          /\ webinar_likes = d.webinar_likes
          /\ user_webinar_likes = d.user_webinar_likes
    /\ webinar_last_updated = << >>
    /\ feed \in Feeds
    /\ posts = << >>
    /\ backups = {}
    /\ last = Log("constructor", NoArg, "ok", NoNotice, NoDoc, 0)
    /\ hist = [lastFeed |-> << >>, appended |-> 0, migrated |-> 0, run |-> NoRun,
               newest |-> "none"]

\* The user opens (or reloads) a page: constructor, then init() awaits loadData.
\* The old page object and its unanswered loads are gone; localStorage stays.
NewSession(pg) ==
    /\ page' = pg
    /\ ready' = FALSE
    /\ webinars' = << >>
    /\ filteredWebinars' = << >>
    /\ dataModified' = FALSE
    /\ editingWebinar' = << >>
    /\ loads' = << Load("init", 1, << >>) >>
    /\ filters' = NoFilters
    /\ currentSort' = InitialSort
    /\ last' = Log("constructor", NoArg, "ok", NoNotice, NoDoc, 0)
    /\ hist' = [hist EXCEPT !.lastFeed = << >>, !.run = NoRun, !.newest = "none"]
    /\ UNCHANGED <<storage, net>>

\* The assignments a finished loadData call makes, with the history kept of it:
\* whether the staged batch showed up behind the response's records, and whether
\* a record came out with more likes than the response or the batch gave it.
FinishLoad(i, ok, resp) ==
    LET r == LoadOf(page, ok, resp, webinars, dataModified, pendingWebinars, webinar_likes)
        kept == IF page = "index" THEN SelectSeq(resp, validateWebinarData) ELSE resp
        n == Len(r.webinars)
        appendedNow ==
            /\ ok
            /\ Len(pendingWebinars) > 0
            /\ n = Len(kept) + Len(pendingWebinars)
            /\ \A k \in 1..Len(pendingWebinars) :
                  r.webinars[Len(kept) + k].id = pendingWebinars[k].id
        given(k) == IF k <= Len(kept) THEN LikesOr0(kept[k])
                    ELSE IF k - Len(kept) <= Len(pendingWebinars)
                         THEN LikesOr0(pendingWebinars[k - Len(kept)])
                         ELSE 0
        migratedNow == ok /\ \E k \in 1..n : LikesOr0(r.webinars[k]) > given(k)
    IN  /\ webinars' = r.webinars
        /\ filteredWebinars' = r.filteredWebinars
        /\ dataModified' = r.dataModified
        /\ pendingWebinars' = r.pendingWebinars
        /\ webinar_likes' = r.webinar_likes
        /\ ready' = (ready \/ r.completed)
        /\ loads' = RemoveAt(loads, i)
        /\ last' = Log("loadData", <<loads[i].tag>>, IF ok THEN "ok" ELSE "failed",
                       NoNotice, NoDoc, 0)
        /\ hist' = [hist EXCEPT
                      !.lastFeed = IF ok THEN resp ELSE @,
                      !.appended = IF appendedNow THEN @ + 1 ELSE @,
                      !.migrated = IF migratedNow THEN @ + 1 ELSE @,
                      !.run = NoRun]
        /\ UNCHANGED <<view, page, editingWebinar, user_webinar_likes>>

\* Variant of the first response's handling that never asks for a second one.
FetchFirstDone_neverFresh(ok) ==
    /\ page \in {"index", "legacy"}
    /\ Len(loads) = 1 /\ loads[1].stage = 1
    /\ FinishLoad(1, ok, feed.webinars)
    /\ UNCHANGED <<webinar_last_updated, net>>

\* WebinarDirectory.loadData up to its first response (both generations): a
\* failure goes to the catch block; otherwise the response's last_updated is
\* compared with the remembered token and either the cache-bypassing fetch is
\* issued or the first response is used.
FetchFirstDone(ok) ==
    /\ page \in {"index", "legacy"}
    /\ Len(loads) = 1 /\ loads[1].stage = 1
    /\ IF ok /\ webinar_last_updated # feed.last_updated
       THEN /\ loads' = << Load(loads[1].tag, 2, feed.last_updated) >>
            /\ last' = Log("fetch", <<"first">>, "ok", NoNotice, NoDoc, 0)
            /\ UNCHANGED <<view, page, ready, webinars, filteredWebinars, dataModified,
                           editingWebinar, storage, hist>>
       ELSE /\ FinishLoad(1, ok, feed.webinars)
            /\ UNCHANGED webinar_last_updated
    /\ UNCHANGED net

\* WebinarDirectory.loadData from the cache-bypassing response on (both
\* generations): the fresh records are used and the token read from the first
\* response is remembered.
FetchFreshDone(ok) ==
    /\ page \in {"index", "legacy"}
    /\ Len(loads) = 1 /\ loads[1].stage = 2
    /\ FinishLoad(1, ok, feed.webinars)
    /\ webinar_last_updated' = IF ok THEN loads[1].lastUpdated ELSE webinar_last_updated
    /\ UNCHANGED net

\* AdminPanel.loadData: any of the calls in flight gets its response.
Admin_loadDataDone(i, ok) ==
    /\ page = "admin"
    /\ i \in 1..Len(loads)
    /\ FinishLoad(i, ok, feed.webinars)
    /\ UNCHANGED <<webinar_last_updated, net>>

\* ------------------------------------------------- the like ledger (index)
\* WebinarDirectory.getLikeCount / isWebinarLiked, current generation.
getLikeCount(ws, id) == IF IndexOf(ws, id) = 0 THEN 0 ELSE LikesOr0(ws[IndexOf(ws, id)])
isWebinarLiked(userLikes, id) == id \in userLikes

\* Variant of toggleLike without the lookup's not-found exit.
toggleLike_unchecked(ws, userLikes, id) ==
    [found |-> TRUE,
     webinars |-> [i \in 1..Len(ws) |->
                     IF ws[i].id = id THEN toggledRecord(ws[i], userLikes, id) ELSE ws[i]],
     userLikes |-> IF id \in userLikes THEN userLikes \ {id} ELSE userLikes \cup {id}]

\* Variant of toggleLike that leaves the membership map alone.
toggleLike_stickyMembership(ws, userLikes, id) ==
    IF \A i \in 1..Len(ws) : ws[i].id # id
    THEN [found |-> FALSE, webinars |-> ws, userLikes |-> userLikes]
    ELSE [found |-> TRUE,
          webinars |-> [i \in 1..Len(ws) |->
                          IF ws[i].id = id THEN toggledRecord(ws[i], userLikes, id)
                          ELSE ws[i]],
          userLikes |-> userLikes]

\* WebinarDirectory.toggleLike, current generation, as a function of the store
\* and the membership map.
toggleLike(ws, userLikes, id) ==
    LET i == IndexOf(ws, id)
    IN  IF i = 0
        THEN [found |-> FALSE, webinars |-> ws, userLikes |-> userLikes]
        ELSE [found |-> TRUE,
              webinars |-> [ws EXCEPT ![i] = toggledRecord(ws[i], userLikes, id)],
              userLikes |-> IF id \in userLikes THEN userLikes \ {id}
                            ELSE userLikes \cup {id}]

\* WebinarDirectory.getLikeCount, earlier generation: the ledger's count.
Legacy_getLikeCount(ledger, id) == LedgerGet(ledger, id)

\* WebinarDirectory.toggleLike, earlier generation: no lookup in the store.
Legacy_toggleLike(ledger, userLikes, id) ==
    [webinar_likes |->
        LedgerSet(ledger, id, toggledLedgerCount(LedgerGet(ledger, id), userLikes, id)),
     userLikes |-> IF id \in userLikes THEN userLikes \ {id} ELSE userLikes \cup {id}]

\* The run of successive toggles of one record: where it started, and whether
\* the number of toggles so far is even.
NextRun(id, count0, liked0) ==
    IF hist.run # NoRun /\ hist.run[1].id = id
    THEN << [hist.run[1] EXCEPT !.even = ~@] >>
    ELSE << [id |-> id, likes0 |-> count0, liked0 |-> liked0, even |-> FALSE] >>

ToggleLike(id, t) ==
    LET r == toggleLike(webinars, user_webinar_likes, id)
    IN  /\ page = "index" /\ ready
        /\ IF ~r.found
           THEN /\ last' = Log("toggleLike", id, "not-found", "Webinar not found", NoDoc, 0)
                /\ hist' = [hist EXCEPT !.run = NoRun]
                /\ UNCHANGED <<mem, storage, net>>
           ELSE /\ Len(posts) < MaxPosts
                /\ \A k \in 1..Len(r.webinars) : LikesOr0(r.webinars[k]) <= MaxLikes
                /\ webinars' = r.webinars
                /\ user_webinar_likes' = r.userLikes
                /\ dataModified' = TRUE
                /\ posts' = Append(posts, backupData(r.webinars, t))
                /\ editingWebinar' =
                      IF editingWebinar # << >> /\ editingWebinar[1].id = id
                      THEN << r.webinars[IndexOf(r.webinars, id)] >>
                      ELSE editingWebinar
                /\ last' = Log("toggleLike", id, "ok",
                               IF id \in user_webinar_likes
                               THEN "Removed from liked webinars"
                               ELSE "Added to liked webinars", NoDoc, t)
                /\ hist' = [hist EXCEPT
                              !.run = NextRun(id, getLikeCount(webinars, id),
                                              isWebinarLiked(user_webinar_likes, id)),
                              !.newest = "flying"]
                /\ UNCHANGED <<view, page, ready, filteredWebinars, loads, pendingWebinars,
                               webinar_likes, webinar_last_updated, feed, backups>>

Legacy_ToggleLike(id) ==
    LET r == Legacy_toggleLike(webinar_likes, user_webinar_likes, id)
    IN  /\ page = "legacy" /\ ready
        /\ \E k \in 1..Len(webinars) : webinars[k].id = id
        /\ LedgerGet(r.webinar_likes, id) <= MaxLikes
        /\ webinar_likes' = r.webinar_likes
        /\ user_webinar_likes' = r.userLikes
        /\ last' = Log("toggleLike", id, "ok",
                       IF id \in user_webinar_likes
                       THEN "Removed from liked webinars"
                       ELSE "Added to liked webinars", NoDoc, 0)
        /\ hist' = [hist EXCEPT
                      !.migrated = 0,
                      !.run = NextRun(id, Legacy_getLikeCount(webinar_likes, id),
                                      isWebinarLiked(user_webinar_likes, id))]
        /\ UNCHANGED <<mem, pendingWebinars, webinar_last_updated, net>>

\* --------------------------------------------------------- save_likes.php
\* A request body as json_decode($input, true) sees it. kind: no body at all;
\* text that is not JSON; JSON whose PHP value is falsy (null, false, 0, "",
\* [], {}); an object without 'webinars'; an object whose 'webinars' is null, a
\* scalar, an object, a list. data: << >> or the document json_encode($data)
\* writes back. An empty JSON object decodes to the empty PHP array, which is
\* encoded as an empty list.
Body(kind, data) == [kind |-> kind, data |-> data]
JSONBody(doc) == Body("webinars-list", <<doc>>)
truthy(body) == body.kind \notin {"missing", "malformed", "falsy"}
isset_webinars(body) == body.kind \in {"webinars-scalar", "webinars-object", "webinars-list"}
is_array_webinars(body) == body.kind \in {"webinars-object", "webinars-list"}

\* The number of backup files the script keeps.
KeepBackups == 5

\* glob + usort by filemtime + unlink of the oldest: a backup is named after the
\* second it is written in, and is identified here by that second.
pruneBackups(files) ==
    IF Cardinality(files) > KeepBackups
    THEN {f \in files : Cardinality({g \in files : g > f}) < KeepBackups}
    ELSE files

\* Variant of the script that answers 200 without writing webinars.json.
save_likes_withoutWrite(method, body, writable, now, file, files) ==
    IF method # "POST"
    THEN [status |-> "405", file |-> file, backups |-> files]
    ELSE IF ~truthy(body)
    THEN [status |-> "400", file |-> file, backups |-> files]
    ELSE IF ~isset_webinars(body) \/ ~is_array_webinars(body)
    THEN [status |-> "400", file |-> file, backups |-> files]
    ELSE IF ~writable
    THEN [status |-> "500", file |-> file, backups |-> files \cup {now}]
    ELSE [status |-> "200", file |-> file,
          backups |-> pruneBackups(files \cup {now})]

\* The whole script, as a function of the request (method, body), of the
\* environment (whether webinars.json can be written, the clock's second) and of
\* the files found (webinars.json, which exists, and the backups).
save_likes(method, body, writable, now, file, files) ==
    IF method # "POST"
    THEN [status |-> "405", file |-> file, backups |-> files]
    ELSE IF ~truthy(body)
    THEN [status |-> "400", file |-> file, backups |-> files]
    ELSE IF ~isset_webinars(body) \/ ~is_array_webinars(body)
    THEN [status |-> "400", file |-> file, backups |-> files]
    ELSE IF ~writable
    THEN [status |-> "500", file |-> file, backups |-> files \cup {now}]
    ELSE [status |-> "200", file |-> body.data[1],
          backups |-> pruneBackups(files \cup {now})]

\* One request is handled from start to end.
Request(method, body, writable, now) ==
    /\ \A f \in backups : f <= now
    /\ LET r == save_likes(method, body, writable, now, feed, backups)
       IN  /\ feed' = r.file
           /\ backups' = r.backups
           /\ last' = Log("save_likes.php",
                          <<method, body.kind, IF writable THEN "writable" ELSE "read-only">>,
                          r.status, NoNotice, body.data, now)
    /\ UNCHANGED <<mem, storage, posts, hist>>

\* What became of the newest persistence request of this page once request i of
\* n in flight is answered: it is the last one dispatched while it is "flying".
newestAfter(newest, i, n, ok) ==
    IF newest = "flying" /\ i = n THEN (IF ok THEN "landed" ELSE "lost")
    ELSE IF newest = "landed" /\ ok THEN "overwritten"
    ELSE newest

\* Variant of the request's answer in which a failure undoes the like.
SaveLikesDone_rollback(i, ok, now) ==
    /\ i \in 1..Len(posts)
    /\ \A f \in backups : f <= now
    /\ posts' = RemoveAt(posts, i)
    /\ feed' = IF ok THEN posts[i] ELSE feed
    /\ backups' = IF ok THEN pruneBackups(backups \cup {now}) ELSE backups
    /\ dataModified' = (ok /\ dataModified)
    /\ user_webinar_likes' = IF ok THEN user_webinar_likes ELSE {}
    /\ last' = Log("saveLikesToServer", NoArg, IF ok THEN "ok" ELSE "failed",
                   NoNotice, NoDoc, 0)
    /\ hist' = [hist EXCEPT !.newest = newestAfter(@, i, Len(posts), ok)]
    /\ UNCHANGED <<view, page, ready, webinars, filteredWebinars, editingWebinar, loads,
                   pendingWebinars, webinar_likes, webinar_last_updated>>

\* saveLikesToServer's request is answered. ok: save_likes.php has handled the
\* request at second now and answered 200; otherwise the request did not reach
\* the script (network error, static host) and the files are as they were. The
\* client only logs a warning either way.
SaveLikesDone(i, ok, now) ==
    /\ i \in 1..Len(posts)
    /\ \A f \in backups : f <= now
    /\ LET r == IF ok
                THEN save_likes("POST", JSONBody(posts[i]), TRUE, now, feed, backups)
                ELSE [status |-> "none", file |-> feed, backups |-> backups]
       IN  /\ feed' = r.file
           /\ backups' = r.backups
           /\ last' = Log("saveLikesToServer", NoArg,
                          IF r.status = "200" THEN "ok" ELSE "failed", NoNotice, NoDoc, 0)
    /\ posts' = RemoveAt(posts, i)
    /\ hist' = [hist EXCEPT !.newest = newestAfter(@, i, Len(posts), ok)]
    /\ UNCHANGED <<mem, storage>>

\* ------------------------------------------ edit / delete / export (index)
\* WebinarDirectory.editWebinar
EditWebinar(id) ==
    /\ page = "index" /\ ready
    /\ IF IndexOf(webinars, id) = 0
       THEN /\ last' = Log("editWebinar", id, "not-found", "Webinar not found", NoDoc, 0)
            /\ UNCHANGED editingWebinar
       ELSE /\ editingWebinar' = << webinars[IndexOf(webinars, id)] >>
            /\ last' = Log("editWebinar", id, "ok", NoNotice, NoDoc, 0)
    /\ hist' = [hist EXCEPT !.run = NoRun]
    /\ UNCHANGED <<view, page, ready, webinars, filteredWebinars, dataModified, loads,
                   storage, net>>

\* WebinarDirectory.saveWebinarChanges, as a function of the store, the flag and
\* the record being edited.
saveWebinarChanges(ws, dm, editing, title, certificate) ==
    LET index == IndexOf(ws, editing.id)
    IN  IF index # 0
        THEN [saved |-> TRUE,
              webinars |-> [ws EXCEPT ![index] = updatedWebinar(editing, title, certificate)],
              dataModified |-> TRUE]
        ELSE [saved |-> FALSE, webinars |-> ws, dataModified |-> dm]

SaveWebinarChanges(title, certificate) ==
    /\ page = "index" /\ ready
    /\ editingWebinar # << >>
    /\ LET r == saveWebinarChanges(webinars, dataModified, editingWebinar[1],
                                   title, certificate)
       IN  /\ webinars' = r.webinars
           /\ dataModified' = r.dataModified
           /\ filteredWebinars' = IF r.saved THEN AllOf(r.webinars) ELSE filteredWebinars
           /\ editingWebinar' = IF r.saved THEN << >> ELSE editingWebinar
           /\ last' = IF r.saved
                      THEN Log("saveWebinarChanges", editingWebinar[1].id, "ok",
                               "Webinar updated successfully!", NoDoc, 0)
                      ELSE Log("saveWebinarChanges", editingWebinar[1].id, "not-found",
                               NoNotice, NoDoc, 0)
    /\ hist' = [hist EXCEPT !.run = NoRun]
    /\ UNCHANGED <<view, page, ready, loads, storage, net>>

\* WebinarDirectory.closeEditModal
CloseEditModal ==
    /\ page = "index" /\ ready
    /\ editingWebinar # << >>
    /\ editingWebinar' = << >>
    /\ last' = Log("closeEditModal", NoArg, "ok", NoNotice, NoDoc, 0)
    /\ hist' = [hist EXCEPT !.run = NoRun]
    /\ UNCHANGED <<view, page, ready, webinars, filteredWebinars, dataModified, loads,
                   storage, net>>

\* Variant of deleteWebinar that does not raise the flag.
deleteWebinar_flagless(ws, refs, dm, id, confirmed) ==
    IF \A i \in 1..Len(ws) : ws[i].id # id
    THEN [res |-> "not-found", webinars |-> ws, filteredWebinars |-> refs,
          dataModified |-> dm]
    ELSE IF confirmed
         THEN [res |-> "ok", webinars |-> RemoveId(ws, id),
               filteredWebinars |-> RemoveIdRefs(refs, ws, id), dataModified |-> dm]
         ELSE [res |-> "cancelled", webinars |-> ws, filteredWebinars |-> refs,
               dataModified |-> dm]

\* Variant of deleteWebinar that filters the store and leaves the visible list.
deleteWebinar_storeOnly(ws, refs, dm, id, confirmed) ==
    IF IndexOf(ws, id) = 0
    THEN [res |-> "not-found", webinars |-> ws, filteredWebinars |-> refs,
          dataModified |-> dm]
    ELSE IF confirmed
         THEN [res |-> "ok", webinars |-> RemoveId(ws, id),
               filteredWebinars |-> refs, dataModified |-> TRUE]
         ELSE [res |-> "cancelled", webinars |-> ws, filteredWebinars |-> refs,
               dataModified |-> dm]

\* deleteWebinar (WebinarDirectory and AdminPanel remove alike), as a function of
\* the store, the visible list and the flag.
deleteWebinar(ws, refs, dm, id, confirmed) ==
    IF IndexOf(ws, id) = 0
    THEN [res |-> "not-found", webinars |-> ws, filteredWebinars |-> refs,
          dataModified |-> dm]
    ELSE IF confirmed
         THEN [res |-> "ok", webinars |-> RemoveId(ws, id),
               filteredWebinars |-> RemoveIdRefs(refs, ws, id), dataModified |-> TRUE]
         ELSE [res |-> "cancelled", webinars |-> ws, filteredWebinars |-> refs,
               dataModified |-> dm]

DeleteWebinar(id, confirmed) ==
    /\ page = "index" /\ ready
    /\ LET r == deleteWebinar(webinars, filteredWebinars, dataModified, id, confirmed)
       IN  /\ webinars' = r.webinars
           /\ filteredWebinars' = r.filteredWebinars
           /\ dataModified' = r.dataModified
           /\ last' = Log("deleteWebinar", id, r.res,
                          IF r.res = "not-found" THEN "Webinar not found"
                          ELSE IF r.res = "ok" THEN "Webinar deleted successfully!"
                          ELSE NoNotice, NoDoc, 0)
    /\ hist' = [hist EXCEPT !.run = NoRun]
    /\ UNCHANGED <<view, page, ready, editingWebinar, loads, storage, net>>

\* Variant of exportUpdatedData without the dataModified guard.
exportUpdatedData_unguarded(dm, ws, t) == << exportSnapshot(ws, t) >>

\* The 'export changes' handlers, as a function of the flag, the store and the
\* clock: << >> when nothing is produced.
exportUpdatedData(dm, ws, t) == IF ~dm THEN NoDoc ELSE << exportSnapshot(ws, t) >>

ExportUpdatedData(t) ==
    /\ page = "index" /\ ready
    /\ LET d == exportUpdatedData(dataModified, webinars, t)
       IN  last' = IF d = NoDoc
                   THEN Log("exportUpdatedData", NoArg, "no-changes",
                            "No changes to export", NoDoc, 0)
                   ELSE Log("exportUpdatedData", NoArg, "ok",
                            "Updated data exported!", d, t)
    /\ hist' = [hist EXCEPT !.run = NoRun]
    /\ UNCHANGED <<mem, storage, net>>

\* ------------------------------------------------------------ AdminPanel
\* AdminPanel.deleteWebinar, as a function of the store, the visible list and
\* the flag.
Admin_deleteWebinar(ws, refs, dm, id, confirmed) ==
    IF IndexOf(ws, id) = 0
    THEN [res |-> "not-found", webinars |-> ws, filteredWebinars |-> refs,
          dataModified |-> dm]
    ELSE IF confirmed
         THEN [res |-> "ok", webinars |-> RemoveId(ws, id),
               filteredWebinars |-> RemoveIdRefs(refs, ws, id), dataModified |-> TRUE]
         ELSE [res |-> "cancelled", webinars |-> ws, filteredWebinars |-> refs,
               dataModified |-> dm]

Admin_DeleteWebinar(id, confirmed) ==
    /\ page = "admin" /\ ready
    /\ LET r == Admin_deleteWebinar(webinars, filteredWebinars, dataModified, id, confirmed)
       IN  /\ webinars' = r.webinars
           /\ filteredWebinars' = r.filteredWebinars
           /\ dataModified' = r.dataModified
           /\ last' = Log("AdminPanel.deleteWebinar", id, r.res, NoNotice, NoDoc, 0)
    /\ hist' = [hist EXCEPT !.run = NoRun]
    /\ UNCHANGED <<view, page, ready, editingWebinar, loads, storage, net>>

\* AdminPanel.editWebinar: leaves for index.html?edit=<id>, which constructs a
\* WebinarDirectory.
Admin_EditWebinar(id) ==
    /\ page = "admin" /\ ready
    /\ \E k \in 1..Len(webinars) : webinars[k].id = id
    /\ NewSession("index")

\* Variant of exportData that leaves the last record out.
Admin_exportData_withoutLast(dm, ws, t) ==
    << exportSnapshot(SubSeq(ws, 1, Len(ws) - 1), t) >>

\* AdminPanel.exportData ('export all'), as a function of the store and the clock.
Admin_exportData(dm, ws, t) == << exportSnapshot(ws, t) >>

Admin_ExportData(t) ==
    /\ page = "admin" /\ ready
    /\ last' = Log("AdminPanel.exportData", NoArg, "ok", NoNotice,
                   Admin_exportData(dataModified, webinars, t), t)
    /\ hist' = [hist EXCEPT !.run = NoRun]
    /\ UNCHANGED <<mem, storage, net>>

\* AdminPanel.exportChanges, as a function of the flag, the store and the clock.
Admin_exportChanges(dm, ws, t) == IF ~dm THEN NoDoc ELSE << exportSnapshot(ws, t) >>

Admin_ExportChanges(t) ==
    /\ page = "admin" /\ ready
    /\ LET d == Admin_exportChanges(dataModified, webinars, t)
       IN  last' = IF d = NoDoc
                   THEN Log("AdminPanel.exportChanges", NoArg, "no-changes",
                            "No changes to export. Make some changes first!", NoDoc, 0)
                   ELSE Log("AdminPanel.exportChanges", NoArg, "ok",
                            "Updated data exported!", d, t)
    /\ hist' = [hist EXCEPT !.run = NoRun]
    /\ UNCHANGED <<mem, storage, net>>

\* AdminPanel.refreshData: starts a loadData call; the rest runs on its response.
Admin_RefreshData ==
    /\ page = "admin" /\ ready
    /\ Len(loads) < MaxLoads
    /\ loads' = Append(loads, Load("refresh", 1, << >>))
    /\ last' = Log("AdminPanel.refreshData", NoArg, "ok", NoNotice, NoDoc, 0)
    /\ hist' = [hist EXCEPT !.run = NoRun]
    /\ UNCHANGED <<view, page, ready, webinars, filteredWebinars, dataModified,
                   editingWebinar, storage, net>>

\* Variant of AdminPanel.clearChanges that reloads without lowering the flag.
Admin_clearChanges_keepFlag(dm, confirmed) ==
    IF confirmed THEN [dataModified |-> dm, reload |-> TRUE]
    ELSE [dataModified |-> dm, reload |-> FALSE]

\* AdminPanel.clearChanges, as a function of the flag: the flag it leaves and
\* whether a reload is started.
Admin_clearChanges(dm, confirmed) ==
    IF confirmed THEN [dataModified |-> FALSE, reload |-> TRUE]
    ELSE [dataModified |-> dm, reload |-> FALSE]

Admin_ClearChanges(confirmed) ==
    /\ page = "admin" /\ ready
    /\ Len(loads) < MaxLoads
    /\ LET r == Admin_clearChanges(dataModified, confirmed)
       IN  /\ dataModified' = r.dataModified
           /\ loads' = IF r.reload THEN Append(loads, Load("clear", 1, << >>)) ELSE loads
           /\ last' = Log("AdminPanel.clearChanges", NoArg,
                          IF r.reload THEN "ok" ELSE "cancelled", NoNotice, NoDoc, 0)
    /\ hist' = [hist EXCEPT !.run = NoRun]
    /\ UNCHANGED <<view, page, ready, webinars, filteredWebinars, editingWebinar,
                   storage, net>>

\* Variant of submitAddForm without the certificate check.
Admin_submitAddForm_unchecked(ws, dm, title, provider, certificate, t) ==
    [added |-> TRUE,
     webinars |-> Append(ws, webinarData(title, provider, UrlOk, certificate, t)),
     dataModified |-> TRUE]

\* AdminPanel.submitAddForm, as a function of the store, the flag, the form values
\* and the clock.
Admin_submitAddForm(ws, dm, title, provider, certificate, t) ==
    IF certificate = "false"
    THEN [added |-> FALSE, webinars |-> ws, dataModified |-> dm]
    ELSE [added |-> TRUE,
          webinars |-> Append(ws, webinarData(title, provider, UrlOk, certificate, t)),
          dataModified |-> TRUE]

Admin_SubmitAddForm(title, provider, certificate, t) ==
    /\ page = "admin" /\ ready
    /\ Len(webinars) < MaxStore
    /\ LET r == Admin_submitAddForm(webinars, dataModified, title, provider,
                                    certificate, t)
       IN  /\ webinars' = r.webinars
           /\ dataModified' = r.dataModified
           /\ filteredWebinars' = IF r.added THEN AllOf(r.webinars) ELSE filteredWebinars
           /\ last' = IF r.added
                      THEN Log("AdminPanel.submitAddForm", generateId(title, provider),
                               "ok", "Webinar added successfully!", NoDoc, t)
                      ELSE Log("AdminPanel.submitAddForm", NoArg, "rejected",
                               "Only webinars with certificates are allowed in this directory.",
                               NoDoc, 0)
    /\ hist' = [hist EXCEPT !.run = NoRun]
    /\ UNCHANGED <<view, page, ready, editingWebinar, loads, storage, net>>

\* -------------------------------------------------- filters and sorting
\* UTF-16 code units of the characters used.
codeUnit(c) ==
    CASE c = " " -> 32 [] c = "," -> 44 [] c = "-" -> 45 [] c = "<" -> 60
      [] c = ">" -> 62 [] c = "A" -> 65 [] c = "P" -> 80 [] c = "a" -> 97
      [] c = "b" -> 98 [] c = "d" -> 100 [] c = "e" -> 101 [] c = "i" -> 105
      [] c = "l" -> 108 [] c = "m" -> 109 [] c = "n" -> 110 [] c = "o" -> 111
      [] c = "p" -> 112 [] c = "s" -> 115 [] c = "v" -> 118 [] c = "x" -> 120

\* a < b on strings: by code unit, a proper prefix first.
RECURSIVE stringLess(_, _)
stringLess(a, b) ==
    IF b = << >> THEN FALSE
    ELSE IF a = << >> THEN TRUE
    ELSE IF codeUnit(Head(a)) # codeUnit(Head(b)) THEN codeUnit(Head(a)) < codeUnit(Head(b))
    ELSE stringLess(Tail(a), Tail(b))

\* Array.prototype.join
RECURSIVE join(_, _)
join(parts, sep) ==
    IF parts = << >> THEN << >>
    ELSE IF Len(parts) = 1 THEN parts[1]
    ELSE parts[1] \o sep \o join(Tail(parts), sep)

\* String.prototype.includes
includes(text, term) ==
    \E i \in 0..(Len(text) - Len(term)) : SubSeq(text, i + 1, i + Len(term)) = term

\* String.prototype.trim
RECURSIVE trim(_)
trim(s) ==
    IF s = << >> THEN << >>
    ELSE IF Head(s) \in Space THEN trim(Tail(s))
    ELSE IF s[Len(s)] \in Space THEN trim(SubSeq(s, 1, Len(s) - 1))
    ELSE s

\* WebinarDirectory.sanitizeInput
sanitizeInput(input) == trim(SelectSeq(input, LAMBDA c : c \notin {"<", ">"}))

\* The values of the format field, and of live_date: a calendar day, or one of
\* the strings 'on-demand', 'Unknown', ''.
Live == <<"l", "i", "v", "e">>
OnDemand == <<"o", "n", "-", "d", "e", "m", "a", "n", "d">>
LiveDate(kind, day) == [kind |-> kind, day |-> day]
OnDay(day) == LiveDate("date", day)

\* A record with the fields the table shows, filters and sorts by.
Row(r, description, topics, format, duration_min, live_date) ==
    [id |-> r.id, title |-> r.title, provider |-> r.provider, url |-> r.url,
     likes |-> r.likes, certificate_available |-> r.certificate_available,
     date_added |-> r.date_added, source |-> r.source,
     description |-> description, topics |-> topics, format |-> format,
     duration_min |-> duration_min, live_date |-> live_date]

\* The catalogue the filter and sort handlers are exercised on.
Catalogue ==
    << Row(recX, <<"a">>, << <<"b">> >>, Live, 30, OnDay(1)),
       Row(recPA, << >>, << <<"a">>, <<"b">> >>, OnDemand, 60, LiveDate("on-demand", 0)),
       Row(Rec(idPB, <<"A">>, <<"s">>, UrlOk, <<2>>, FALSE, ISODate(0), NoSource),
           <<"x">>, << >>, Live, 91, OnDay(31)),
       Row(Rec(idSample, <<"a">>, <<"P">>, UrlOk, <<1>>, TRUE, ISODate(1), NoSource),
           <<"b">>, << <<"a">> >>, Live, 31, OnDay(0)),
       Row(Rec(idBad, <<"b">>, <<"s">>, UrlOk, NoLikes, TRUE, ISODate(1), <<"manual">>),
           << >>, << <<"x">> >>, Live, 61, LiveDate("Unknown", 0)) >>

\* Days an event may lie ahead and still be 'upcoming'.
UpcomingDays == 30

\* Variant of the callback whose 'upcoming' has no horizon.
passesFilters_withoutHorizon(w, f, userLikes, now) ==
    /\ (f.search # << >>) =>
          includes(toLowerCase(w.title \o <<" ">> \o w.description \o <<" ">>
                               \o join(w.topics, <<" ">>)),
                   toLowerCase(f.search))
    /\ ~(f.provider # << >> /\ w.provider # f.provider)
    /\ ~(f.topic # << >> /\ ~(\E i \in 1..Len(w.topics) : w.topics[i] = f.topic))
    /\ ~(f.format # << >> /\ w.format # f.format)
    /\ (f.duration # "") =>
          CASE f.duration = "0-30" -> ~(w.duration_min > 30)
            [] f.duration = "31-60" -> ~(w.duration_min < 31 \/ w.duration_min > 60)
            [] f.duration = "61-90" -> ~(w.duration_min < 61 \/ w.duration_min > 90)
            [] f.duration = "91+" -> ~(w.duration_min < 91)
            [] OTHER -> TRUE
    /\ ~(f.certificate # ""
         /\ (IF w.certificate_available THEN "true" ELSE "false") # f.certificate)
    /\ (f.date # "") =>
          IF f.date = "live" THEN w.format = Live
          ELSE IF f.date = "on-demand" THEN w.format = OnDemand
          ELSE IF f.date = "upcoming"
          THEN /\ w.format = Live
               /\ w.live_date.kind = "date"
               /\ ~(w.live_date.day - now < 0)
          ELSE TRUE
    /\ (f.liked = "liked") => isWebinarLiked(userLikes, w.id)

\* Variant of the callback whose '31-60' bucket has no lower end.
passesFilters_openBuckets(w, f, userLikes, now) ==
    /\ (f.search # << >>) =>
          includes(toLowerCase(w.title \o <<" ">> \o w.description \o <<" ">>
                               \o join(w.topics, <<" ">>)),
                   toLowerCase(f.search))
    /\ ~(f.provider # << >> /\ w.provider # f.provider)
    /\ ~(f.topic # << >> /\ ~(\E i \in 1..Len(w.topics) : w.topics[i] = f.topic))
    /\ ~(f.format # << >> /\ w.format # f.format)
    /\ (f.duration # "") =>
          CASE f.duration = "0-30" -> ~(w.duration_min > 30)
            [] f.duration = "31-60" -> ~(w.duration_min > 60)
            [] f.duration = "61-90" -> ~(w.duration_min < 61 \/ w.duration_min > 90)
            [] f.duration = "91+" -> ~(w.duration_min < 91)
            [] OTHER -> TRUE
    /\ ~(f.certificate # ""
         /\ (IF w.certificate_available THEN "true" ELSE "false") # f.certificate)
    /\ (f.date # "") =>
          IF f.date = "live" THEN w.format = Live
          ELSE IF f.date = "on-demand" THEN w.format = OnDemand
          ELSE IF f.date = "upcoming"
          THEN /\ w.format = Live
               /\ w.live_date.kind = "date"
               /\ ~(w.live_date.day - now < 0 \/ w.live_date.day - now > UpcomingDays)
          ELSE TRUE
    /\ (f.liked = "liked") => isWebinarLiked(userLikes, w.id)

\* The callback of applyFilters: whether one record stays. now is the clock's
\* day; new Date(live_date) is the start of that day.
passesFilters(w, f, userLikes, now) ==
    /\ (f.search # << >>) =>
          includes(toLowerCase(w.title \o <<" ">> \o w.description \o <<" ">>
                               \o join(w.topics, <<" ">>)),
                   toLowerCase(f.search))
    /\ ~(f.provider # << >> /\ w.provider # f.provider)
    /\ ~(f.topic # << >> /\ ~(\E i \in 1..Len(w.topics) : w.topics[i] = f.topic))
    /\ ~(f.format # << >> /\ w.format # f.format)
    /\ (f.duration # "") =>
          CASE f.duration = "0-30" -> ~(w.duration_min > 30)
            [] f.duration = "31-60" -> ~(w.duration_min < 31 \/ w.duration_min > 60)
            [] f.duration = "61-90" -> ~(w.duration_min < 61 \/ w.duration_min > 90)
            [] f.duration = "91+" -> ~(w.duration_min < 91)
            [] OTHER -> TRUE
    /\ ~(f.certificate # ""
         /\ (IF w.certificate_available THEN "true" ELSE "false") # f.certificate)
    /\ (f.date # "") =>
          IF f.date = "live" THEN w.format = Live
          ELSE IF f.date = "on-demand" THEN w.format = OnDemand
          ELSE IF f.date = "upcoming"
          THEN /\ w.format = Live
               /\ w.live_date.kind = "date"
               /\ ~(w.live_date.day - now < 0 \/ w.live_date.day - now > UpcomingDays)
          ELSE TRUE
    /\ (f.liked = "liked") => isWebinarLiked(userLikes, w.id)

\* Variant of applyFilters that lists the matching records last-to-first.
applyFilters_reversed(ws, f, userLikes, now) ==
    LET kept == SelectSeq(AllOf(ws), LAMBDA i : passesFilters(ws[i], f, userLikes, now))
    IN  [k \in 1..Len(kept) |-> kept[Len(kept) + 1 - k]]

\* WebinarDirectory.applyFilters: the new filteredWebinars, as store positions.
applyFilters(ws, f, userLikes, now) ==
    SelectSeq(AllOf(ws), LAMBDA i : passesFilters(ws[i], f, userLikes, now))

\* The 'input' listener of the search box.
SearchInput(raw, t) ==
    /\ page = "index" /\ ready
    /\ filters' = [filters EXCEPT !.search = sanitizeInput(raw)]
    /\ filteredWebinars' = applyFilters(webinars, filters', user_webinar_likes, t)
    /\ last' = Log("applyFilters", <<"search">>, "ok", NoNotice, NoDoc, t)
    /\ hist' = [hist EXCEPT !.run = NoRun]
    /\ UNCHANGED <<page, ready, webinars, dataModified, editingWebinar, loads,
                   currentSort, storage, net>>

\* Variant of the clear-search listener that clears every filter.
ClearSearch_clearingAll(t) ==
    /\ page = "index" /\ ready
    /\ filters' = NoFilters
    /\ filteredWebinars' = applyFilters(webinars, filters', user_webinar_likes, t)
    /\ last' = Log("applyFilters", <<"clearSearch">>, "ok", NoNotice, NoDoc, t)
    /\ hist' = [hist EXCEPT !.run = NoRun]
    /\ UNCHANGED <<page, ready, webinars, dataModified, editingWebinar, loads,
                   currentSort, storage, net>>

\* The 'click' listener of the clear-search button.
ClearSearch(t) ==
    /\ page = "index" /\ ready
    /\ filters' = [filters EXCEPT !.search = << >>]
    /\ filteredWebinars' = applyFilters(webinars, filters', user_webinar_likes, t)
    /\ last' = Log("applyFilters", <<"clearSearch">>, "ok", NoNotice, NoDoc, t)
    /\ hist' = [hist EXCEPT !.run = NoRun]
    /\ UNCHANGED <<page, ready, webinars, dataModified, editingWebinar, loads,
                   currentSort, storage, net>>

\* The 'change' listener of a filter drop-down.
FilterChange(name, value, t) ==
    /\ page = "index" /\ ready
    /\ filters[name] # value
    /\ filters' = [filters EXCEPT ![name] = value]
    /\ filteredWebinars' = applyFilters(webinars, filters', user_webinar_likes, t)
    /\ last' = Log("applyFilters", <<name>>, "ok", NoNotice, NoDoc, t)
    /\ hist' = [hist EXCEPT !.run = NoRun]
    /\ UNCHANGED <<page, ready, webinars, dataModified, editingWebinar, loads,
                   currentSort, storage, net>>

\* WebinarDirectory.resetFilters
ResetFilters ==
    /\ page = "index" /\ ready
    /\ filters' = NoFilters
    /\ filteredWebinars' = AllOf(webinars)
    /\ last' = Log("resetFilters", NoArg, "ok", NoNotice, NoDoc, 0)
    /\ hist' = [hist EXCEPT !.run = NoRun]
    /\ UNCHANGED <<page, ready, webinars, dataModified, editingWebinar, loads,
                   currentSort, storage, net>>

\* getDateValue of sortTable: the timestamp, in days, of a calendar day (day 0
\* of the clock lies after 1970), 0 for '', 'on-demand', 'Unknown'.
DayZero == 100
getDateValue(val) == IF val.kind = "date" THEN DayZero + val.day ELSE 0

\* aVal < bVal in the comparator of sortTable(field), after its special cases.
valLess(ws, field, a, b) ==
    IF field = "topics"
    THEN stringLess(toLowerCase(join(a.topics, <<",", " ">>)),
                    toLowerCase(join(b.topics, <<",", " ">>)))
    ELSE IF field = "likes" THEN getLikeCount(ws, a.id) < getLikeCount(ws, b.id)
    ELSE IF field = "live_date" THEN getDateValue(a.live_date) < getDateValue(b.live_date)
    ELSE IF field = "duration_min" THEN a.duration_min < b.duration_min
    ELSE IF field = "certificate_available"
    THEN ~a.certificate_available /\ b.certificate_available
    ELSE stringLess(toLowerCase(a[field]), toLowerCase(b[field]))

\* Variant of the comparator that ignores the direction.
compare_ascendingOnly(ws, field, direction, a, b) ==
    IF valLess(ws, field, a, b) THEN -1
    ELSE IF valLess(ws, field, b, a) THEN 1
    ELSE 0

\* The comparator of sortTable.
compare(ws, field, direction, a, b) ==
    IF valLess(ws, field, a, b) THEN (IF direction = "asc" THEN -1 ELSE 1)
    ELSE IF valLess(ws, field, b, a) THEN (IF direction = "asc" THEN 1 ELSE -1)
    ELSE 0

\* Array.prototype.sort with that comparator: a stable sort.
RECURSIVE insertSorted(_, _, _, _, _)
insertSorted(refs, x, ws, field, direction) ==
    IF refs = << >> THEN <<x>>
    ELSE IF compare(ws, field, direction, ws[refs[Len(refs)]], ws[x]) > 0
         THEN insertSorted(SubSeq(refs, 1, Len(refs) - 1), x, ws, field, direction)
                 \o <<refs[Len(refs)]>>
         ELSE refs \o <<x>>
RECURSIVE sort(_, _, _, _)
sort(refs, ws, field, direction) ==
    IF refs = << >> THEN << >>
    ELSE insertSorted(sort(SubSeq(refs, 1, Len(refs) - 1), ws, field, direction),
                      refs[Len(refs)], ws, field, direction)

\* Variant of the direction choice that never descends.
nextDirection_alwaysAscending(current, field) == "asc"

\* The direction sortTable chooses.
nextDirection(current, field) ==
    IF current.field = field /\ current.direction = "asc" THEN "desc" ELSE "asc"

\* WebinarDirectory.sortTable
SortTable(field) ==
    /\ page = "index" /\ ready
    /\ currentSort' = Sort(field, nextDirection(currentSort, field))
    /\ filteredWebinars' = sort(filteredWebinars, webinars, field, currentSort'.direction)
    /\ last' = Log("sortTable", <<field>>, "ok", NoNotice, NoDoc, 0)
    /\ hist' = [hist EXCEPT !.run = NoRun]
    /\ UNCHANGED <<page, ready, webinars, dataModified, editingWebinar, loads,
                   filters, storage, net>>

\* The options of the drop-downs, what is typed into the search box, and the
\* column headers that sort.
FilterOptions ==
    [provider |-> {<< >>, <<"P">>}, topic |-> {<< >>, <<"b">>},
     format |-> {<< >>, Live, OnDemand},
     duration |-> {"", "0-30", "31-60", "61-90", "91+"},
     certificate |-> {"", "true", "false"},
     date |-> {"", "live", "on-demand", "upcoming"},
     liked |-> {"", "liked"}]
SearchTerms == { <<" ", "A", "<">>, << >> }
SortFields == {"title", "provider", "topics", "format", "live_date", "duration_min",
               "certificate_available", "likes"}

\* ----------------------------------------------------------- environment
\* An external collaborator (scraper run, manual replacement of the exported
\* file) publishes another feed document.
FeedUpdate(d) ==
    /\ d # feed
    /\ feed' = d
    /\ last' = Log("feed", NoArg, "ok", NoNotice, NoDoc, 0)
    /\ UNCHANGED <<mem, storage, posts, backups, hist>>

\* Another admin session stages a batch of records under 'pendingWebinars'.
StagePending(batch) ==
    /\ pendingWebinars = << >>
    /\ pendingWebinars' = batch
    /\ last' = Log("stage", NoArg, "ok", NoNotice, NoDoc, 0)
    /\ hist' = [hist EXCEPT !.appended = 0]
    /\ UNCHANGED <<mem, webinar_likes, user_webinar_likes, webinar_last_updated,
                   net>>

\* Form values the admin may submit, and the values an edit may save.
AddTitles == { <<"a">>, <<"A", "!">> }
AddProviders == { <<"P">> }
EditTitles == { <<"b">> }
\* Records whose like button is pressed; ids an edit or delete button passes:
\* idX is in every feed, idBad is in no index-page store.
LikeIds == {idX}
EditIds == {idX, idBad}
Certificates == {"true", "false"}

\* The user reloads the page / opens another page of the site on this device.
Reload == NewSession(page)
Open(pg) == page # pg /\ NewSession(pg)

\* WebinarDirectory.loadData's responses (both generations).
IndexLoads ==
    \/ \E ok \in BOOLEAN : FetchFirstDone(ok)
    \/ \E ok \in BOOLEAN : FetchFreshDone(ok)

\* The like button of either generation, pressed when the request of the last
\* like has been answered, and the persistence request's answer.
Likes ==
    \/ \E id \in LikeIds, t \in Clock : posts = << >> /\ ToggleLike(id, t)
    \/ \E id \in LikeIds : Legacy_ToggleLike(id)
    \/ \E i \in 1..MaxPosts, ok \in BOOLEAN : SaveLikesDone(i, ok, 0)

\* WebinarDirectory, current generation: every handler, on a static host
\* (GITHUB_PAGES_SETUP.md), where save_likes.php never answers OK; the likes
\* are given on day 0, each after the request of the last one has failed.
NextIndex ==
    \/ IndexLoads
    \/ \E id \in LikeIds \cup {idBad} : posts = << >> /\ ToggleLike(id, 0)
    \/ \E i \in 1..MaxPosts : SaveLikesDone(i, FALSE, 0)
    \/ \E id \in EditIds : EditWebinar(id)
    \/ \E ti \in EditTitles, c \in Certificates : SaveWebinarChanges(ti, c)
    \/ CloseEditModal
    \/ \E id \in EditIds, c \in BOOLEAN : DeleteWebinar(id, c)
    \/ \E t \in Clock : ExportUpdatedData(t)

\* AdminPanel: the handlers that write the store or the flag, or start a load.
NextAdminStore ==
    \/ \E i \in 1..MaxLoads, ok \in BOOLEAN : Admin_loadDataDone(i, ok)
    \/ \E id \in EditIds, c \in BOOLEAN : Admin_DeleteWebinar(id, c)
    \/ Admin_RefreshData
    \/ \E c \in BOOLEAN : Admin_ClearChanges(c)
    \/ \E ti \in AddTitles, p \in AddProviders, c \in Certificates, t \in Clock :
          Admin_SubmitAddForm(ti, p, c, t)

\* AdminPanel: every handler that stays on the panel.
NextAdmin ==
    \/ NextAdminStore
    \/ \E t \in Clock : Admin_ExportData(t)
    \/ \E t \in Clock : Admin_ExportChanges(t)

\* What happens outside the page.
NextEnv ==
    \/ \E d \in Feeds : FeedUpdate(d)
    \/ \E b \in PendingBatches : StagePending(b)

\* Either page of the site on one device, with the feed and the staged list as
\* they were found:
\* the index page, or the admin panel and the index page its edit button opens.
Next ==
    \/ Reload
    \/ NextIndex
    \/ NextAdmin
    \/ \E id \in EditIds : Admin_EditWebinar(id)

InitSite == Init /\ page # "legacy"
Spec == InitSite /\ [][Next]_vars

\* The admin panel's store alone, with the feed and the staged list changing
\* under it.
InitAdmin == Init /\ page = "admin"
SpecAdmin == InitAdmin /\ [][Reload \/ NextAdminStore \/ NextEnv]_vars

\* The like ledgers of both generations of the index page on one device that
\* starts with an empty localStorage; the feed changes through save_likes.php.
InitLikes ==
    Init /\ page # "admin" /\ webinar_likes = EmptyLedger /\ pendingWebinars = << >>
SpecLikes ==
    /\ InitLikes
    /\ [][Reload \/ (\E pg \in {"index", "legacy"} : Open(pg)) \/ IndexLoads \/ Likes]_vars

\* The loads of all three pages on one device that starts with an empty
\* localStorage, with the feed and the staged list changing under them.
InitLoads == Init /\ webinar_likes = EmptyLedger /\ pendingWebinars = << >>
SpecLoads ==
    /\ InitLoads
    /\ [][Reload \/ (\E pg \in {"index", "legacy", "admin"} : Open(pg)) \/ IndexLoads
           \/ (\E i \in 1..MaxLoads, ok \in BOOLEAN : Admin_loadDataDone(i, ok))
           \/ Admin_RefreshData
           \/ (\E id \in LikeIds : Legacy_ToggleLike(id))
           \/ NextEnv]_vars

\* The index page loading feeds that hold records of every kind side by side:
\* valid, with a relative url, and lacking an id, a title, a provider or a url.
FeedRecords ==
    { recX, recPA, recBadUrl,
      Rec(<< >>, <<"x">>, <<"P">>, UrlOk, NoLikes, TRUE, ISODate(0), <<"scraped">>),
      Rec(<<"n">>, << >>, <<"P">>, UrlOk, NoLikes, TRUE, ISODate(0), <<"scraped">>),
      Rec(<<"o">>, <<"a">>, << >>, UrlOk, NoLikes, TRUE, ISODate(0), <<"scraped">>),
      Rec(<<"e">>, <<"a">>, <<"P">>, UrlMissing, NoLikes, TRUE, ISODate(0), <<"scraped">>) }
MixedFeeds ==
    { Doc(ws, ISODate(0)) :
        ws \in { q \in UNION { [1..n -> FeedRecords] : n \in 0..MaxStore } :
                   \A i, j \in DOMAIN q : i # j => q[i] # q[j] } }
InitValidate ==
    /\ page = "index" /\ ready = FALSE /\ loads = << Load("init", 1, << >>) >>
    /\ webinars = << >> /\ filteredWebinars = << >>
    /\ dataModified = FALSE /\ editingWebinar = << >>
    /\ filters = NoFilters /\ currentSort = InitialSort
    /\ \E d \in Devices :
          /\ pendingWebinars = d.pendingWebinars
          /\ webinar_likes = d.webinar_likes
          /\ user_webinar_likes = d.user_webinar_likes
    /\ webinar_last_updated = << >>
    /\ feed \in MixedFeeds /\ posts = << >> /\ backups = {}
    /\ last = Log("constructor", NoArg, "ok", NoNotice, NoDoc, 0)
    /\ hist = [lastFeed |-> << >>, appended |-> 0, migrated |-> 0, run |-> NoRun,
               newest |-> "none"]
SpecValidate == InitValidate /\ [][Reload \/ IndexLoads]_vars

\* The current index page on a fresh device, with likes given while earlier
\* persistence requests are still in flight; save_likes.php answers them in any
\* order.
InitPersist ==
    /\ Init /\ page = "index" /\ feed = Doc(<<recX, recBadUrl>>, ISODate(0))
    /\ webinar_likes = EmptyLedger /\ pendingWebinars = << >> /\ user_webinar_likes = {}
SpecPersist ==
    /\ InitPersist
    /\ [][Reload \/ IndexLoads
           \/ (\E id \in LikeIds, t \in Clock : ToggleLike(id, t))
           \/ (\E i \in 1..MaxPosts, ok \in BOOLEAN : SaveLikesDone(i, ok, 0))]_vars

\* save_likes.php alone: requests of every shape, handled one after another as
\* the server's clock advances.
MaxSeconds == 6
Methods == {"POST", "GET"}
PostedDocs == { Doc(<<recXliked>>, ISODateTime(0)), Doc(<<recX, recPA>>, ISODateTime(1)) }
RequestBodies ==
    { Body(k, << >>) : k \in {"missing", "malformed", "falsy", "no-webinars",
                               "webinars-null", "webinars-scalar"} }
    \cup { Body("webinars-object", << Doc(<< >>, ISODateTime(0)) >>) }
    \cup { JSONBody(d) : d \in PostedDocs }
InitServer == Init /\ page = "index" /\ feed = Doc(<<recX, recBadUrl>>, ISODate(0))
                   /\ webinar_likes = EmptyLedger /\ pendingWebinars = << >>
SpecServer ==
    /\ InitServer
    /\ [][\E m \in Methods, b \in RequestBodies, w \in BOOLEAN, now \in 0..MaxSeconds :
             Request(m, b, w, now)]_vars

\* The index page once init() has loaded the catalogue; the device has liked
\* two of its records.
InitView ==
    /\ page = "index" /\ ready = TRUE /\ loads = << >>
    /\ webinars = Catalogue /\ filteredWebinars = AllOf(Catalogue)
    /\ dataModified = FALSE /\ editingWebinar = << >>
    /\ filters = NoFilters /\ currentSort = InitialSort
    /\ pendingWebinars = << >> /\ webinar_likes = EmptyLedger
    /\ user_webinar_likes = {idX, idSample}
    /\ webinar_last_updated = << ISODate(0) >>
    /\ feed = Doc(Catalogue, ISODate(0)) /\ posts = << >> /\ backups = {}
    /\ last = Log("loadData", <<"init">>, "ok", NoNotice, NoDoc, 0)
    /\ hist = [lastFeed |-> Catalogue, appended |-> 0, migrated |-> 0, run |-> NoRun,
               newest |-> "none"]

\* The filter handlers alone.
SpecFilters ==
    /\ InitView
    /\ [][\/ \E raw \in SearchTerms, t \in Clock : SearchInput(raw, t)
          \/ \E t \in Clock : ClearSearch(t)
          \/ \E name \in DOMAIN FilterOptions, t \in Clock :
                \E value \in FilterOptions[name] : FilterChange(name, value, t)
          \/ ResetFilters]_vars

\* The filter handlers on two-record stores: every pair of live dates and formats
\* under the date and format filters, and every pair of durations under the
\* duration and format filters.
Schedules ==
    { <<Live, d>> :
        d \in { OnDay(0), OnDay(1), OnDay(30), OnDay(31), OnDay(32),
                LiveDate("on-demand", 0), LiveDate("Unknown", 0), LiveDate("", 0),
                LiveDate("invalid", 0) } }
    \cup { <<OnDemand, OnDay(1)>>, <<OnDemand, LiveDate("on-demand", 0)>> }
DatedStores ==
    { << Row(recX, << >>, << >>, a[1], 60, a[2]),
         Row(recPA, << >>, << >>, b[1], 60, b[2]) >> : a, b \in Schedules }
TimedStores ==
    { << Row(recX, << >>, << >>, Live, a, LiveDate("Unknown", 0)),
         Row(recPA, << >>, << >>, OnDemand, b, LiveDate("Unknown", 0)) >> :
        a, b \in {1, 25, 30, 31, 45, 60, 61, 90, 91, 480} }
InitStore(stores) ==
    /\ page = "index" /\ ready = TRUE /\ loads = << >>
    /\ webinars \in stores /\ filteredWebinars = AllOf(webinars)
    /\ dataModified = FALSE /\ editingWebinar = << >>
    /\ filters = NoFilters /\ currentSort = InitialSort
    /\ pendingWebinars = << >> /\ webinar_likes = EmptyLedger
    /\ user_webinar_likes = {}
    /\ webinar_last_updated = << ISODate(0) >>
    /\ feed = Doc(webinars, ISODate(0)) /\ posts = << >> /\ backups = {}
    /\ last = Log("loadData", <<"init">>, "ok", NoNotice, NoDoc, 0)
    /\ hist = [lastFeed |-> webinars, appended |-> 0, migrated |-> 0, run |-> NoRun,
               newest |-> "none"]
InitDated == InitStore(DatedStores)
InitTimed == InitStore(TimedStores)
SpecUpcoming ==
    /\ InitDated
    /\ [][\/ \E name \in {"date", "format"}, t \in Clock :
                \E value \in FilterOptions[name] : FilterChange(name, value, t)
          \/ ResetFilters]_vars
SpecBuckets ==
    /\ InitTimed
    /\ [][\/ \E name \in {"duration", "format"}, t \in Clock :
                \E value \in FilterOptions[name] : FilterChange(name, value, t)
          \/ ResetFilters]_vars

\* Every handler that writes the store or the visible list, on either page of a
\* fresh device: loads, likes, edits, deletions, additions, reloads, and the
\* liked-only filter and two sortable columns of the index page.
InitVisible ==
    /\ InitSite /\ pendingWebinars = << >> /\ webinar_likes = EmptyLedger
    /\ user_webinar_likes = {}
SpecVisible ==
    /\ InitVisible
    /\ [][\/ Reload
          \/ IndexLoads
          \/ \E id \in LikeIds : posts = << >> /\ ToggleLike(id, 0)
          \/ \E i \in 1..MaxPosts : SaveLikesDone(i, FALSE, 0)
          \/ \E id \in EditIds : EditWebinar(id)
          \/ \E ti \in EditTitles, c \in Certificates : SaveWebinarChanges(ti, c)
          \/ \E id \in EditIds, c \in BOOLEAN : DeleteWebinar(id, c)
          \/ \E value \in FilterOptions["liked"] : FilterChange("liked", value, 0)
          \/ ResetFilters
          \/ \E field \in {"title", "likes"} : SortTable(field)
          \/ NextAdminStore]_vars

\* One index page on a fresh device whose persistence requests all reach
\* save_likes.php, oldest first, and are written: likes, edits and deletions in
\* any order, with requests in flight; every request in flight is answered in the
\* end.
InitConverge ==
    /\ Init /\ page = "index"
    /\ webinar_likes = EmptyLedger /\ pendingWebinars = << >> /\ user_webinar_likes = {}
SpecConverge ==
    /\ InitConverge
    /\ [][\/ Reload
          \/ IndexLoads
          \/ \E id \in LikeIds : ToggleLike(id, 0)
          \/ SaveLikesDone(1, TRUE, 0)
          \/ \E id \in LikeIds : EditWebinar(id)
          \/ \E ti \in EditTitles : SaveWebinarChanges(ti, "true")
          \/ \E id \in LikeIds : DeleteWebinar(id, TRUE)]_vars
    /\ WF_vars(SaveLikesDone(1, TRUE, 0))

\* The sort handler, on what the liked-only and the provider filter show.
SpecSort ==
    /\ InitView
    /\ [][\/ \E field \in SortFields : SortTable(field)
          \/ \E name \in {"liked", "provider"} :
                \E value \in FilterOptions[name] : FilterChange(name, value, 0)
          \/ ResetFilters]_vars

\* ================================================================ claims
\* The record and the positions a load keeps of the current feed.
Kept == IF page = "index" THEN SelectSeq(feed.webinars, validateWebinarData)
        ELSE feed.webinars
IdsOf(ws) == [i \in DOMAIN ws |-> ws[i].id]
\* getLikeCount of the page generation that is alive.
CountNow(id) ==
    IF page = "legacy" THEN Legacy_getLikeCount(webinar_likes, id)
    ELSE getLikeCount(webinars, id)
\* A run of an even, positive number of toggles of one record has just ended.
EvenRun == hist.run # NoRun /\ hist.run[1].even

\* C1: in every reachable state every record's likes is absent or a
\* non-negative integer, every count of the earlier generation's ledger is a
\* non-negative integer, and a record whose like button has just been handled
\* holds a non-negative integer.
LikesNeverNegative ==
    /\ \A i \in 1..Len(webinars) :
          webinars[i].likes = NoLikes \/ webinars[i].likes[1] \in Nat
    /\ \A id \in DOMAIN webinar_likes : webinar_likes[id] \in Nat
    /\ (last.op = "toggleLike" /\ last.res = "ok") => CountNow(last.arg) \in Nat
\* An unlike has just been handled on a record whose counter was 0 while the
\* membership map marked it liked: the clamp of the decrement has acted.
UnlikeAtZero ==
    /\ last.op = "toggleLike" /\ last.res = "ok"
    /\ last.notice = "Removed from liked webinars"
    /\ hist.run # NoRun /\ hist.run[1].likes0 = 0 /\ hist.run[1].liked0
    /\ CountNow(last.arg) = 0

\* C2 as stated: after an even number of toggleLike calls on one record,
\* isWebinarLiked and getLikeCount are back at the values they had before the
\* first call, whatever those values were.
EvenTogglesRestore ==
    (EvenRun /\ page = "index") =>
        /\ isWebinarLiked(user_webinar_likes, hist.run[1].id) = hist.run[1].liked0
        /\ getLikeCount(webinars, hist.run[1].id) = hist.run[1].likes0
\* C2 amended: after an even number of toggleLike calls on one record,
\* isWebinarLiked is back at its original value; getLikeCount is back at its
\* original value unless the run started with the record marked liked and its
\* counter at 0 (or absent), in which case the counter ends at 1.
EvenTogglesRestoreUnlessLikedAtZero ==
    (EvenRun /\ page = "index") =>
        /\ isWebinarLiked(user_webinar_likes, hist.run[1].id) = hist.run[1].liked0
        /\ getLikeCount(webinars, hist.run[1].id) =
              IF hist.run[1].liked0 /\ hist.run[1].likes0 = 0 THEN 1
              ELSE hist.run[1].likes0
\* Two toggles of a record that started unliked with its counter absent.
TwoTogglesFromUnliked ==
    /\ EvenRun /\ page = "index"
    /\ ~hist.run[1].liked0 /\ hist.run[1].likes0 = 0
    /\ ~isWebinarLiked(user_webinar_likes, hist.run[1].id)
    /\ webinars[IndexOf(webinars, hist.run[1].id)].likes = <<0>>

\* C3: every step of a mutating operation (add, edit-save, confirmed delete,
\* like toggle, a load that integrates staged records, a load that migrates
\* legacy likes) ends with dataModified true; the flag of a page object goes
\* from true to false only in a step of AdminPanel.clearChanges (a newly
\* constructed page object starts with it false); the export handlers and
\* refreshData leave it as it is.
MutatingOps ==
    {"AdminPanel.submitAddForm", "saveWebinarChanges", "deleteWebinar",
     "AdminPanel.deleteWebinar", "toggleLike"}
NonResettingOps ==
    {"AdminPanel.exportChanges", "exportUpdatedData", "AdminPanel.exportData",
     "AdminPanel.refreshData"}
FlagStep ==
    /\ (last'.op \in MutatingOps /\ last'.res = "ok") => dataModified'
    /\ (last'.op = "loadData" /\ hist'.appended > hist.appended) => dataModified'
    /\ (last'.op = "loadData" /\ hist'.migrated > hist.migrated) => dataModified'
    /\ (dataModified /\ ~dataModified') =>
          last'.op \in {"AdminPanel.clearChanges", "constructor"}
    /\ (last'.op \in NonResettingOps) => dataModified' = dataModified
FlagIsTwoStateMachine == [][FlagStep]_vars
\* The admin has exported the changes and the flag is still raised.
ExportedWhileDirty ==
    last.op = "AdminPanel.exportChanges" /\ last.res = "ok" /\ dataModified

\* C4 as stated: after a confirmed deleteWebinar of an existing id the flag is
\* true; once the reload of a confirmed clearChanges has finished, the flag is
\* false and the store is the record list of the last successfully loaded feed.
ClearRestoresLoadedFeed ==
    /\ (last.op = "AdminPanel.deleteWebinar" /\ last.res = "ok") => dataModified
    /\ (last.op = "loadData" /\ last.arg = <<"clear">>) =>
          (~dataModified /\ webinars = hist.lastFeed)
\* C4 amended: after a confirmed deleteWebinar of an existing id the flag is
\* true; when the reload of a confirmed clearChanges finishes before any other
\* handler runs, then (a) reload succeeded, nothing staged: flag false, store =
\* the record list just loaded; (b) reload succeeded, records staged: store =
\* that list followed by the staged records, flag true; (c) reload failed: flag
\* false, store empty.
ClearStep ==
    /\ (last'.op = "AdminPanel.deleteWebinar" /\ last'.res = "ok") => dataModified'
    /\ (/\ last.op = "AdminPanel.clearChanges" /\ last.res = "ok"
        /\ last'.op = "loadData" /\ last'.arg = <<"clear">>) =>
          IF last'.res = "ok"
          THEN /\ webinars' = feed.webinars \o pendingWebinars
               /\ dataModified' = (Len(pendingWebinars) > 0)
               /\ hist'.lastFeed = feed.webinars
          ELSE /\ webinars' = << >>
               /\ ~dataModified'
ClearReloadsFeed == [][ClearStep]_vars
\* A clearChanges reload has succeeded with nothing staged, after a delete had
\* shortened the store: the store is the loaded feed again and the flag is down.
ClearedToFeed ==
    /\ last.op = "loadData" /\ last.arg = <<"clear">> /\ last.res = "ok"
    /\ ~dataModified /\ webinars = hist.lastFeed /\ Len(webinars) = 2

\* C5: an 'export changes' step (AdminPanel.exportChanges,
\* WebinarDirectory.exportUpdatedData) changes no state; with the flag false it
\* produces no document and shows its notice, with the flag true it produces
\* {webinars: store, last_updated: the date read, total_count: store length};
\* an 'export all' step (AdminPanel.exportData) produces that document whatever
\* the flag is.
SnapshotNow(t) ==
    << [webinars |-> webinars, last_updated |-> <<0, t>>, total_count |-> Len(webinars)] >>
ExportStep ==
    /\ (last'.op \in {"AdminPanel.exportChanges", "exportUpdatedData"}) =>
          /\ UNCHANGED <<mem, storage, net>>
          /\ IF ~dataModified
             THEN /\ last'.doc = << >>
                  /\ last'.notice \in {"No changes to export",
                                       "No changes to export. Make some changes first!"}
             ELSE last'.doc = SnapshotNow(last'.t)
    /\ (last'.op = "AdminPanel.exportData") =>
          /\ UNCHANGED <<mem, storage, net>>
          /\ last'.doc = SnapshotNow(last'.t)
ExportChangesOnlyWhenModified == [][ExportStep]_vars
\* 'Export changes' has been pressed on the index page with nothing modified.
ExportRefused ==
    /\ last.op = "exportUpdatedData" /\ last.res = "no-changes"
    /\ ~dataModified /\ Len(webinars) > 0

\* C6: a load that reads a non-empty 'pendingWebinars' puts the staged records
\* behind the feed records it kept, raises dataModified and empties the staging
\* key; a load that finds the key empty keeps only feed records; counted from
\* the moment a batch is staged, at most one load appends it.
PendingStep ==
    (last'.op = "loadData" /\ last'.res = "ok") =>
        /\ IdsOf(webinars') = IdsOf(Kept \o pendingWebinars)
        /\ pendingWebinars' = << >>
        /\ Len(pendingWebinars) > 0 => (dataModified' /\ hist'.appended = 1)
        /\ hist'.appended <= 1
PendingAppendedOnce == [][PendingStep]_vars
\* A load after the one that integrated the batch: the batch is not in the store.
LoadedAfterIntegration ==
    /\ last.op = "loadData" /\ last.res = "ok" /\ hist.appended = 1
    /\ pendingWebinars = << >>
    /\ \A i \in 1..Len(webinars) : webinars[i].id # idPB

\* C7: a successful load of the current index page adds each positive count of
\* the legacy ledger 'webinar_likes' to the likes of the record with that id and
\* removes the ledger; counted from the last legacy like, at most one load
\* raises a record's likes above what the feed gave it.
MigrateStep ==
    (last'.op = "loadData" /\ last'.res = "ok" /\ page = "index") =>
        /\ \A k \in 1..Len(Kept) :
              LET n == LedgerGet(webinar_likes, Kept[k].id)
              IN  /\ LikesOr0(webinars'[k]) = LikesOr0(Kept[k]) + (IF n > 0 THEN n ELSE 0)
                  /\ n > 0 => webinar_likes' = EmptyLedger
        /\ hist'.migrated <= 1
LoadFailureContained ==
    (last.op = "loadData" /\ last.res = "failed") =>
        /\ ready
        /\ webinars = IF page = "admin" THEN << >>
                      ELSE << [id |-> <<"s">>, title |-> <<"s">>, provider |-> <<"P">>,
                               url |-> UrlOk, likes |-> << >>,
                               certificate_available |-> TRUE,
                               date_added |-> <<0, 0>>, source |-> << >>] >>
        /\ FilteredRecords = webinars
\* The index page has fallen back to the sample collection.
FellBackToSample ==
    /\ last.op = "loadData" /\ last.res = "failed" /\ page = "index"
    /\ ready /\ Len(webinars) = 1 /\ webinars[1].id = idSample

\* C9 as stated: no two records of the store have the same id.
UniqueIds ==
    \A i, j \in 1..Len(webinars) : i # j => webinars[i].id # webinars[j].id

\* C10: a step of WebinarDirectory.editWebinar, deleteWebinar or toggleLike whose
\* id is not in the store shows 'Webinar not found' and leaves the store,
\* filteredWebinars, dataModified, editingWebinar, the membership map and the
\* queue of persistence requests as they were.
NotFoundStep ==
    (/\ last'.op \in {"editWebinar", "deleteWebinar", "toggleLike"}
     /\ page = "index"
     /\ \A i \in 1..Len(webinars) : webinars[i].id # last'.arg) =>
        /\ last'.notice = "Webinar not found"
        /\ UNCHANGED <<webinars, filteredWebinars, dataModified, editingWebinar,
                       user_webinar_likes, posts, feed>>
AbsentIdChangesNothing == [][NotFoundStep]_vars
\* The like button of an id that is not in the store has just been handled.
LikeOfAbsentId ==
    /\ last.op = "toggleLike" /\ last.res = "not-found" /\ page = "index"
    /\ last.notice = "Webinar not found" /\ posts = << >>

\* C11: a toggleLike step on an existing record adds exactly one request to the
\* persistence requests in flight; the step in which a request is answered,
\* successfully or not, takes that request away and leaves the page object
\* (store, filteredWebinars, dataModified, ...) and localStorage (membership
\* map) exactly as toggleLike left them.
PersistStep ==
    /\ (last'.op = "toggleLike" /\ last'.res = "ok" /\ page = "index") =>
          (Len(posts') = Len(posts) + 1 /\ SubSeq(posts', 1, Len(posts)) = posts)
    /\ (last'.op = "saveLikesToServer") =>
          (UNCHANGED <<mem, storage>> /\ Len(posts') = Len(posts) - 1)
LikeSurvivesFailedSave == [][PersistStep]_vars
\* The request of a like has failed and the like is still there.
LikeKeptAfterFailedSave ==
    /\ last.op = "saveLikesToServer" /\ last.res = "failed" /\ page = "index"
    /\ dataModified /\ idX \in user_webinar_likes /\ getLikeCount(webinars, idX) = 1

\* C12: each toggleLike step on an existing record appends to the requests in
\* flight one request whose body is the whole store as that step leaves it,
\* stamped with the time of the step; an answered request may be any of those in
\* flight, whatever its position, and when the server accepts it webinars.json
\* becomes that request's body.
DispatchStep ==
    /\ (last'.op = "toggleLike" /\ last'.res = "ok" /\ page = "index") =>
          posts' = Append(posts, [webinars |-> webinars',
                                  last_updated |-> ISODateTime(last'.t),
                                  total_count |-> Len(webinars')])
    /\ (last'.op = "saveLikesToServer" /\ last'.res = "ok") =>
          \E i \in 1..Len(posts) : feed' = posts[i] /\ posts' = RemoveAt(posts, i)
EachToggleSendsItsOwnSnapshot == [][DispatchStep]_vars
\* Every request has been answered, the newest one was written first and an
\* older one over it: the file's likes are not the page's.
OlderSnapshotWins ==
    /\ page = "index" /\ ready /\ posts = << >> /\ hist.newest = "overwritten"
    /\ IndexOf(webinars, idX) # 0 /\ IndexOf(feed.webinars, idX) # 0
    /\ feed.webinars[IndexOf(feed.webinars, idX)].likes
          # webinars[IndexOf(webinars, idX)].likes

\* C13: a request that is not a POST is answered 405, a POST whose body is
\* missing or is not JSON is answered 400, a POST whose JSON has no 'webinars'
\* key holding a list is answered 400, and each of these leaves webinars.json and
\* the backup files as they were; 200 is answered only with webinars.json holding
\* the posted document; a POST that passes the checks and cannot write is
\* answered 500.
ServerAnswerStep ==
    (last'.op = "save_likes.php") =>
       LET method == last'.arg[1]
           kind == last'.arg[2]
           writable == (last'.arg[3] = "writable")
       IN  /\ (method # "POST") => (last'.res = "405" /\ UNCHANGED <<feed, backups>>)
           /\ (method = "POST" /\ kind \in {"missing", "malformed"}) =>
                 (last'.res = "400" /\ UNCHANGED <<feed, backups>>)
           /\ (method = "POST" /\ kind \notin {"missing", "malformed", "webinars-list"}) =>
                 (last'.res = "400" /\ UNCHANGED <<feed, backups>>)
           /\ (last'.res = "200") => (last'.doc # << >> /\ feed' = last'.doc[1])
           /\ (method = "POST" /\ kind = "webinars-list" /\ ~writable) => last'.res = "500"
ServerRejectsWithoutEffect == [][ServerAnswerStep]_vars

\* C14: a handled request leaves at most KeepBackups backup files, and a backup
\* file it removes is older than every backup file it keeps.
BackupStep ==
    (last'.op = "save_likes.php") =>
       /\ Cardinality(backups') <= KeepBackups
       /\ \A f \in backups \ backups' : \A g \in backups' : g > f
AtMostFiveNewestBackups == [][BackupStep]_vars

\* C15: a step of a filter listener changes, of the page object, localStorage
\* and the network, only filteredWebinars and the one filter setting the listener
\* assigns before it calls applyFilters; when the settings, the clock value and
\* everything else are what they were at the application before, filteredWebinars
\* comes out the same.
FilterField(arg) == IF arg = <<"clearSearch">> THEN "search" ELSE arg[1]
FilterFrameStep ==
    (last'.op = "applyFilters") =>
       /\ UNCHANGED <<page, ready, webinars, dataModified, editingWebinar, loads,
                      currentSort, storage, net>>
       /\ \A name \in DOMAIN filters :
             name # FilterField(last'.arg) => filters'[name] = filters[name]
       /\ (last.op = "applyFilters" /\ filters' = filters /\ last'.t = last.t) =>
             filteredWebinars' = filteredWebinars
ApplyFiltersOnlyRecomputes == [][FilterFrameStep]_vars
\* The search box is cleared while it is empty and the upcoming filter hides
\* some records.
ReappliedWithFiltersSet ==
    /\ last.op = "applyFilters" /\ last.arg = <<"clearSearch">>
    /\ filters.date = "upcoming" /\ filters.search = << >>
    /\ Len(filteredWebinars) \in 1..(Len(webinars) - 1)
    /\ ~dataModified /\ webinars = Catalogue

\* C16: after a filter listener's step filteredWebinars lists, in store order
\* and once each, exactly the store positions whose record satisfies the
\* predicate of every filter with a non-empty value: the search term occurs,
\* case-insensitively, in title, description and topics; provider and format
\* are equal to the setting; the topic is among the record's topics; the
\* duration lies in the range named; certificate_available reads as the
\* setting; the date setting names the format, or 'upcoming' asks for a live
\* record dated between now and 30 days ahead; liked-only asks for a membership
\* entry. After resetFilters every setting is empty and the whole store is
\* listed.
Satisfies(w, f, userLikes, now) ==
    /\ f.search = << >>
       \/ includes(toLowerCase(w.title), toLowerCase(f.search))
       \/ includes(toLowerCase(w.description), toLowerCase(f.search))
       \/ includes(toLowerCase(join(w.topics, <<" ">>)), toLowerCase(f.search))
       \/ includes(toLowerCase(w.title \o <<" ">> \o w.description \o <<" ">>
                               \o join(w.topics, <<" ">>)), toLowerCase(f.search))
    /\ f.provider = << >> \/ w.provider = f.provider
    /\ f.topic = << >> \/ f.topic \in {w.topics[i] : i \in 1..Len(w.topics)}
    /\ f.format = << >> \/ w.format = f.format
    /\ f.duration = "0-30" => w.duration_min <= 30
    /\ f.duration = "31-60" => w.duration_min \in 31..60
    /\ f.duration = "61-90" => w.duration_min \in 61..90
    /\ f.duration = "91+" => w.duration_min >= 91
    /\ f.certificate = "true" => w.certificate_available
    /\ f.certificate = "false" => ~w.certificate_available
    /\ f.date = "live" => w.format = Live
    /\ f.date = "on-demand" => w.format = OnDemand
    /\ f.date = "upcoming" =>
          (w.format = Live /\ w.live_date.kind = "date"
           /\ w.live_date.day \in now..(now + UpcomingDays))
    /\ f.liked = "liked" => w.id \in userLikes
FilterResultStep ==
    /\ (last'.op = "applyFilters") =>
          /\ \A k \in 1..(Len(filteredWebinars') - 1) :
                filteredWebinars'[k] < filteredWebinars'[k + 1]
          /\ {filteredWebinars'[k] : k \in 1..Len(filteredWebinars')} =
                {i \in 1..Len(webinars') :
                    Satisfies(webinars'[i], filters', user_webinar_likes', last'.t)}
          /\ (filters' = NoFilters) => filteredWebinars' = AllOf(webinars')
    /\ (last'.op = "resetFilters") =>
          (filters' = NoFilters /\ filteredWebinars' = AllOf(webinars'))
FilteredIsExactlyTheMatches == [][FilterResultStep]_vars
\* Duration 31-60 and liked-only together, with three more filters set to
\* values the record passes: one record is left, the fourth of the store.
SeveralFiltersOneMatch ==
    /\ last.op = "applyFilters"
    /\ filters.duration = "31-60" /\ filters.liked = "liked" /\ filters.date = "upcoming"
    /\ filters.search = <<"A">> /\ filters.certificate = "true"
    /\ filteredWebinars = <<4>>

\* C17: after sortTable(field) filteredWebinars holds the positions it held
\* before, each once; no record stands before one whose key (lower-cased string,
\* joined topics, timestamp with 0 for '', 'on-demand' and 'Unknown', like
\* count with 0 for none) comes first in the direction chosen; records with
\* equal keys stand in the order they stood in before. The direction is
\* ascending unless the same field was sorted ascending last.
PlaceIn(refs, x) == CHOOSE k \in 1..Len(refs) : refs[k] = x
SortStep ==
    (last'.op = "sortTable") =>
       LET field == last'.arg[1]
           dir == currentSort'.direction
           old == filteredWebinars
           new == filteredWebinars'
           first(a, b) == IF dir = "asc" THEN valLess(webinars, field, a, b)
                          ELSE valLess(webinars, field, b, a)
       IN  /\ currentSort'.field = field
           /\ dir = IF currentSort = Sort(field, "asc") THEN "desc" ELSE "asc"
           /\ Len(new) = Len(old)
           /\ \A k \in 1..Len(old) : \E j \in 1..Len(new) : new[j] = old[k]
           /\ \A i, j \in 1..Len(new) :
                 i < j =>
                    /\ ~first(webinars[new[j]], webinars[new[i]])
                    /\ ~first(webinars[new[i]], webinars[new[j]]) =>
                          PlaceIn(old, new[i]) < PlaceIn(old, new[j])
           /\ UNCHANGED <<webinars, filters, dataModified, storage, net>>
ExportOps == {"exportUpdatedData", "AdminPanel.exportData", "AdminPanel.exportChanges"}
ExportRoundTripStep ==
    (last.op = "loadData" /\ ~dataModified /\ last'.op \in ExportOps) =>
       /\ last'.doc # NoDoc
       /\ last'.doc[1].webinars = feed.webinars
       /\ last'.doc[1].total_count = Len(feed.webinars)
ExportAfterLoadReturnsFeed == [][ExportRoundTripStep]_vars
\* C18, amended: AdminPanel.exportData made right after a successful load that
\* left the store unmodified produces a snapshot whose records are the feed's
\* records, field by field and in order, and whose total_count is their number;
\* exportUpdatedData and AdminPanel.exportChanges produce nothing at that point.
AdminExportRoundTripStep ==
    /\ (last.op = "loadData" /\ last.res = "ok" /\ ~dataModified
        /\ last'.op = "AdminPanel.exportData") =>
          /\ last'.doc # NoDoc
          /\ last'.doc[1].webinars = feed.webinars
          /\ last'.doc[1].total_count = Len(feed.webinars)
    /\ (last.op = "loadData" /\ ~dataModified
        /\ last'.op \in {"exportUpdatedData", "AdminPanel.exportChanges"}) =>
          last'.doc = NoDoc
AdminExportAfterLoadReturnsFeed == [][AdminExportRoundTripStep]_vars
\* The admin panel has exported an unmodified store that holds the feed's two
\* records.
ExportedWhatWasLoaded ==
    /\ page = "admin" /\ last.op = "AdminPanel.exportData" /\ ~dataModified
    /\ Len(webinars) = 2 /\ last.doc[1].webinars = feed.webinars

\* C19: the record a submitAddForm step appends to the store has source
\* 'manual'.
AddedSourceStep ==
    (last'.op = "AdminPanel.submitAddForm" /\ last'.res = "ok") =>
       webinars'[Len(webinars')].source = <<"manual">>
AddedRecordIsManual == [][AddedSourceStep]_vars

\* C20: a submitAddForm step either appends one record whose
\* certificate_available is true, or (rejected) leaves the store, the visible
\* list and dataModified as they were.
AddedCertificateStep ==
    (last'.op = "AdminPanel.submitAddForm") =>
       IF last'.res = "ok"
       THEN /\ Len(webinars') = Len(webinars) + 1
            /\ SubSeq(webinars', 1, Len(webinars)) = webinars
            /\ webinars'[Len(webinars')].certificate_available = TRUE
       ELSE UNCHANGED <<webinars, filteredWebinars, dataModified>>
AddedRecordHasCertificate == [][AddedCertificateStep]_vars
\* A submission without certificate was turned away after a deletion: the one
\* record left is still the whole store.
SubmissionWithoutCertificateRejected ==
    /\ last.op = "AdminPanel.submitAddForm" /\ last.res = "rejected"
    /\ dataModified /\ Len(webinars) = 1 /\ filteredWebinars = <<1>>

\* C21: WebinarDirectory.loadData asks for the cache-bypassing response exactly
\* when its first response carries a last_updated other than the token under
\* 'webinar_last_updated'. A load that ends well on the second response builds
\* the store from that response and remembers the token read from the first; a
\* load that ends well on the first response found the tokens equal, builds the
\* store from it and leaves the token alone.
BuiltFrom(resp) ==
    LET valid == SelectSeq(resp, validateWebinarData)
    IN  /\ Len(webinars') >= Len(valid)
        /\ IdsOf(SubSeq(webinars', 1, Len(valid))) = IdsOf(valid)
SmartCacheStep ==
    (page = "index" /\ Len(loads) = 1) =>
       /\ (last'.op = "fetch") =>
             /\ loads[1].stage = 1 /\ webinar_last_updated # feed.last_updated
             /\ loads' = << Load(loads[1].tag, 2, feed.last_updated) >>
             /\ UNCHANGED <<webinars, filteredWebinars, storage>>
       /\ (last'.op = "loadData" /\ last'.res = "ok" /\ loads[1].stage = 1) =>
             /\ webinar_last_updated = feed.last_updated
             /\ UNCHANGED webinar_last_updated
             /\ BuiltFrom(feed.webinars)
       /\ (last'.op = "loadData" /\ last'.res = "ok" /\ loads[1].stage = 2) =>
             /\ webinar_last_updated' = loads[1].lastUpdated
             /\ BuiltFrom(feed.webinars)
SecondFetchIffTokenDiffers == [][SmartCacheStep]_vars
\* A load has ended on its first response: the token it found is the feed's.
LoadedFromFirstResponse ==
    /\ page = "index" /\ ready /\ loads = << >>
    /\ last.op = "loadData" /\ last.res = "ok"
    /\ webinar_last_updated = ISODate(1) /\ feed.last_updated = ISODate(1)
    /\ hist.lastFeed = feed.webinars /\ IdsOf(webinars) = <<idPA, idX>>

\* C22: after a WebinarDirectory.loadData that ends well, the token under
\* 'webinar_last_updated' is the last_updated of the document whose records
\* went into the store; a load whose second fetch fails leaves the token as it
\* was.
RememberedTokenStep ==
    (page = "index" /\ Len(loads) = 1 /\ last'.op = "loadData") =>
       IF last'.res = "ok"
       THEN webinar_last_updated' = feed.last_updated
       ELSE UNCHANGED webinar_last_updated
TokenIsThatOfLoadedDocument == [][RememberedTokenStep]_vars

\* C23: in the admin panel, when the user starts a reload (refreshData or a
\* confirmed clearChanges) and then, before that reload has completed, deletes a
\* record (confirmed) or adds one, the store the completed reload leaves still
\* reflects the later mutation: the deleted record is absent, the added one
\* present.
LaterMutationSurvivesStep ==
    (page = "admin" /\ last'.op = "loadData" /\ last'.arg[1] \in {"refresh", "clear"}) =>
       /\ (last.op = "AdminPanel.deleteWebinar" /\ last.res = "ok") =>
             IndexOf(webinars', last.arg) = 0
       /\ (last.op = "AdminPanel.submitAddForm" /\ last.res = "ok") =>
             IndexOf(webinars', last.arg) # 0
MutationsTakeEffectInIssueOrder == [][LaterMutationSurvivesStep]_vars

\* C24: a successful loadData of the index page drops exactly the feed records
\* that lack a non-empty id, title, provider or url or whose url is not an
\* absolute URL, and keeps every other record, in feed order, at the head of the
\* store (likes aside, which the migration may raise); the load does not fail
\* and the sample data is not used, whatever invalid records the feed holds.
WellFormed(w) ==
    w.id # << >> /\ w.title # << >> /\ w.provider # << >> /\ w.url = UrlOk
LikesAside(ws) == [i \in DOMAIN ws |-> [ws[i] EXCEPT !.likes = NoLikes]]
InvalidDroppedStep ==
    (page = "index" /\ last'.op = "loadData" /\ last'.res = "ok") =>
       LET kept == SelectSeq(feed.webinars, WellFormed)
       IN  /\ Len(webinars') = Len(kept) + Len(pendingWebinars)
           /\ LikesAside(SubSeq(webinars', 1, Len(kept))) = LikesAside(kept)
           /\ filteredWebinars' = AllOf(webinars')
           /\ ready'
InvalidRecordsDroppedOthersKept == [][InvalidDroppedStep]_vars
LoadedAroundInvalidRecords ==
    /\ page = "index" /\ ready /\ last.op = "loadData" /\ last.res = "ok"
    /\ Len(feed.webinars) = 2 /\ feed.webinars[1].title = << >> /\ feed.webinars[2] = recX
    /\ webinars = <<recX>> /\ filteredWebinars = <<1>>

\* C25: no operation of the index page's view model changes the id, date_added
\* or source of a record in the store: a saved edit replaces only the edited
\* record, at its position, with its id, date_added, source and likes (and here
\* its provider and url) as they were, and leaves the other records alone; a
\* like toggle changes nothing but likes; and the store a load builds differs
\* from the validated feed records followed by the staged batch in nothing but
\* likes (the migration).
IdentityKeptStep ==
    (page = "index") =>
       /\ (last'.op = "saveWebinarChanges" /\ last'.res = "ok") =>
             LET k == IndexOf(webinars, last'.arg)
             IN  /\ k # 0 /\ Len(webinars') = Len(webinars)
                 /\ \A i \in 1..Len(webinars) : i # k => webinars'[i] = webinars[i]
                 /\ webinars'[k] =
                       [webinars[k] EXCEPT
                          !.title = webinars'[k].title,
                          !.certificate_available = webinars'[k].certificate_available]
       /\ (last'.op = "toggleLike") => LikesAside(webinars') = LikesAside(webinars)
       /\ (last'.op = "loadData" /\ last'.res = "ok") =>
             LikesAside(webinars') =
                LikesAside(SelectSeq(feed.webinars, validateWebinarData) \o pendingWebinars)
OperationsKeepRecordIdentity == [][IdentityKeptStep]_vars
EditedLikedRecordSaved ==
    /\ page = "index" /\ last.op = "saveWebinarChanges" /\ last.res = "ok"
    /\ Len(webinars) = 2
    /\ \E k \in 1..2 : /\ webinars[k].id = idX /\ webinars[k].title = <<"b">>
                       /\ webinars[k].likes = <<1>>
                       /\ webinars[k].date_added = ISODate(0)
                       /\ webinars[k].source = <<"scraped">>

\* C26: with the date filter set to 'upcoming', the list applyFilters leaves
\* holds a record exactly when its format is 'live', its live_date is a concrete
\* parseable date (not empty, not 'on-demand', not 'Unknown', not unparseable),
\* the date lies between 0 and 30 days after the time of the call, and the other
\* filters that are set admit it.
Listed(i) == \E k \in 1..Len(filteredWebinars) : filteredWebinars[k] = i
ConcreteDate(ld) == ld.kind \notin {"", "on-demand", "Unknown", "invalid"}
UpcomingAdmitsExactlyNearLiveDates ==
    (last.op = "applyFilters" /\ filters.date = "upcoming") =>
       \A i \in 1..Len(webinars) :
          Listed(i) <=>
             /\ webinars[i].format = Live
             /\ ConcreteDate(webinars[i].live_date)
             /\ 0 <= webinars[i].live_date.day - last.t
             /\ webinars[i].live_date.day - last.t <= 30
             /\ passesFilters(webinars[i], [filters EXCEPT !.date = ""],
                              user_webinar_likes, last.t)
OnlyTheNearerLiveDateListed ==
    /\ last.op = "applyFilters" /\ last.t = 1 /\ filters.date = "upcoming"
    /\ webinars[1].format = Live /\ webinars[1].live_date = OnDay(31)
    /\ webinars[2].format = Live /\ webinars[2].live_date = OnDay(32)
    /\ filteredWebinars = <<1>>

\* C27: every record (duration_min a positive integer) is admitted by exactly one
\* of the duration filter values '0-30', '31-60', '61-90', '91+', the one whose
\* closed range contains its duration_min; and with a duration filter set the
\* list holds exactly the records of that range that the other filters admit.
Buckets == {"0-30", "31-60", "61-90", "91+"}
InRange(b, d) ==
    CASE b = "0-30" -> 0 <= d /\ d <= 30
      [] b = "31-60" -> 31 <= d /\ d <= 60
      [] b = "61-90" -> 61 <= d /\ d <= 90
      [] b = "91+" -> 91 <= d
AdmittedBy(b, w) == passesFilters(w, [NoFilters EXCEPT !.duration = b], {}, 0)
ExactlyOneDurationBucket ==
    /\ \A i \in 1..Len(webinars) :
          /\ Cardinality({b \in Buckets : AdmittedBy(b, webinars[i])}) = 1
          /\ \A b \in Buckets :
                AdmittedBy(b, webinars[i]) <=> InRange(b, webinars[i].duration_min)
    /\ (last.op = "applyFilters" /\ filters.duration # "") =>
          \A i \in 1..Len(webinars) :
             Listed(i) <=>
                /\ InRange(filters.duration, webinars[i].duration_min)
                /\ passesFilters(webinars[i], [filters EXCEPT !.duration = ""],
                                 user_webinar_likes, last.t)
ShortBucketListsOnlyTheShortRecord ==
    /\ last.op = "applyFilters" /\ filters.duration = "0-30" /\ filters.format = << >>
    /\ webinars[1].duration_min = 25 /\ webinars[2].duration_min = 45
    /\ filteredWebinars = <<1>>

\* C28: starting from the sort {date_added, desc}, sortTable(field) makes field
\* the sort field and sets the direction to 'desc' exactly when field was the
\* sort field already and the direction was 'asc', and to 'asc' otherwise: two
\* successive clicks on one header give different directions, a click on another
\* header gives 'asc'; no other handler touches the sort.
SortDirectionStep ==
    IF last'.op = "sortTable"
    THEN LET field == last'.arg[1]
         IN  /\ currentSort'.field = field
             /\ currentSort'.direction = "desc" <=>
                   (currentSort.field = field /\ currentSort.direction = "asc")
             /\ currentSort'.direction \in {"asc", "desc"}
             /\ (last.op = "sortTable" /\ last.arg = last'.arg) =>
                   currentSort'.direction # currentSort.direction
             /\ (currentSort.field # field) => currentSort'.direction = "asc"
    ELSE UNCHANGED currentSort
SortDirectionAlternates ==
    /\ currentSort = [field |-> "date_added", direction |-> "desc"]
    /\ [][SortDirectionStep]_vars
SecondClickDescends ==
    /\ last.op = "sortTable" /\ last.arg = <<"provider">>
    /\ currentSort = Sort("provider", "desc")

\* C29: after every completed operation of either page (load, filter change,
\* reset, sort, saved edit, deletion, addition, like toggle, refresh, discard)
\* every entry of filteredWebinars is a record of the store; a deletion removes
\* the deleted record from the visible list and nothing else, a saved edit and an
\* addition show the whole store, the edited record in its new state, and a like
\* toggle leaves the list as it is, showing the record with its new count.
Shown(refs, ws) == [i \in DOMAIN refs |-> ws[refs[i]]]
VisibleStep ==
    /\ \A k \in 1..Len(filteredWebinars') : filteredWebinars'[k] \in 1..Len(webinars')
    /\ (last'.op \in {"deleteWebinar", "AdminPanel.deleteWebinar"} /\ last'.res = "ok") =>
          /\ Shown(filteredWebinars', webinars')
                = RemoveId(Shown(filteredWebinars, webinars), last'.arg)
          /\ \A k \in 1..Len(filteredWebinars') :
                webinars'[filteredWebinars'[k]].id # last'.arg
    /\ (last'.op \in {"saveWebinarChanges", "AdminPanel.submitAddForm", "loadData",
                      "resetFilters"}
        /\ last'.res = "ok") =>
          Shown(filteredWebinars', webinars') = webinars'
    /\ (last'.op = "toggleLike") => filteredWebinars' = filteredWebinars
    /\ (last'.op \in {"applyFilters", "sortTable"}) => webinars' = webinars
VisibleListShowsStoreRecords == [][VisibleStep]_vars
DeletedWhileFilteredAndSorted ==
    /\ page = "index" /\ last.op = "deleteWebinar" /\ last.res = "ok"
    /\ last.arg = idX /\ currentSort = Sort("title", "desc")
    /\ user_webinar_likes = {idX}
    /\ Len(webinars) = 1 /\ webinars[1].id = idPA /\ filteredWebinars = <<1>>

\* C30 (as stated): for one client whose persistence requests are all delivered
\* in issue order and written, if the user eventually stops toggling likes then
\* from some moment on the record list of the server's webinars.json equals
\* the client's in-memory store.
StoppedToggling == <>[](last.op # "toggleLike")
Synced == feed.webinars = webinars
ServerConvergesToStore == StoppedToggling => <>[]Synced

\* C30 (amended): under the same delivery, if the user eventually stops toggling
\* likes, then whenever the newest request in flight carries the store as it is
\* (a like was given and nothing has changed the store since), eventually the
\* record list of webinars.json equals the store, likes counters included,
\* unless an edit, a deletion or a page load changes the store before that
\* request is written.
NewestCarriesStore == posts # << >> /\ posts[Len(posts)].webinars = webinars
StoreChangedSince == posts # << >> /\ posts[Len(posts)].webinars # webinars
ServerConvergesAfterLastLike ==
    StoppedToggling => (NewestCarriesStore ~> (Synced \/ StoreChangedSince))
LikeWrittenToServer ==
    /\ page = "index" /\ posts = << >>
    /\ last.op = "saveLikesToServer" /\ last.res = "ok" /\ hist.newest = "landed"
    /\ feed.webinars = webinars /\ Len(webinars) = 1 /\ webinars[1].likes = <<1>>

====
